---------------------------- MODULE Spec2Model ----------------------------
(***************************************************************************)
(* A model of the furniture customizer server (server/routes.ts) and of    *)
(* the relational ledger it writes to (the supabase migration).            *)
(*                                                                         *)
(* JavaScript strings are TLA+ strings; the string methods the handlers    *)
(* call (startsWith, includes, toUpperCase, replace, split, template       *)
(* literals, JSON.stringify) are operators over them.  A JavaScript value  *)
(* of unknown shape (the provider's output) is a tagged record [t, v].     *)
(***************************************************************************)
EXTENDS Integers, Sequences, FiniteSets, TLC

VARIABLES
    env,                  \* process.env.REPLIT_DEV_DOMAIN ("" when unset)
    uploads,              \* the files of UPLOAD_DIR: file name -> content
    home,                 \* the state of the Home page component (client)
    ws,                   \* the state of ProfessionalCanvasWorkspace (client)
    pc,                   \* "idle" | "awaiting" (replicate.run pending) | "done"
    req,                  \* the HTTP request being handled: [route, id, body]
    calls,                \* the replicate.run invocations made for req
    outcome,              \* how the pending replicate.run ended, for req
    res,                  \* the HTTP response sent for req: [status, body]
    before,               \* the ledger as it was when req arrived
    projects,             \* table projects
    projectImages,        \* table project_images
    segmentationMasks,    \* table segmentation_masks
    colorApplications,    \* table color_applications
    professionalResults,  \* table professional_results
    recentColors,         \* table recent_colors
    canvasStates,         \* table canvas_states
    nextId                \* the rows created so far (uuid_generate_v4 is fresh)

ledger == <<projects, projectImages, segmentationMasks, colorApplications,
            professionalResults, recentColors, canvasStates, nextId>>
http   == <<pc, req, calls, outcome, res, before>>
vars   == <<env, uploads, home, ws, pc, req, calls, outcome, res, before, projects, projectImages,
            segmentationMasks, colorApplications, professionalResults,
            recentColors, canvasStates, nextId>>

---------------------------------------------------------------------------
(* JavaScript strings *)

StartsWith(s, p) == Len(s) >= Len(p) /\ SubSeq(s, 1, Len(p)) = p

IndexOf(s, p) ==
    LET hits == { i \in 1..(Len(s) - Len(p) + 1) : SubSeq(s, i, i + Len(p) - 1) = p }
    IN  IF hits = {} THEN 0 ELSE CHOOSE i \in hits : \A j \in hits : i <= j

Includes(s, p) == IndexOf(s, p) > 0

LowerCaseLetters == "abcdefghijklmnopqrstuvwxyz"
UpperCaseLetters == "ABCDEFGHIJKLMNOPQRSTUVWXYZ"
DecimalDigits    == "0123456789"

IsDigit(c) == Len(c) = 1 /\ Includes(DecimalDigits, c)

UpperChar(c) ==
    LET i == IndexOf(LowerCaseLetters, c)
    IN  IF i = 0 THEN c ELSE SubSeq(UpperCaseLetters, i, i)

RECURSIVE ToUpperCase(_)
ToUpperCase(s) ==
    IF s = "" THEN ""
    ELSE UpperChar(SubSeq(s, 1, 1)) \o ToUpperCase(SubSeq(s, 2, Len(s)))

\* The end of the longest run of digits that starts at position i (i - 1 when
\* there is none): the greedy \d+ of the two rewriting patterns.
RECURSIVE DigitsEnd(_, _)
DigitsEnd(s, i) ==
    IF i <= Len(s) /\ IsDigit(SubSeq(s, i, i)) THEN DigitsEnd(s, i + 1) ELSE i - 1

\* s.replace(/<prefix>\d+/, repl): the first match only (no g flag).
ReplacePrefixDigits(s, prefix, repl) ==
    LET hits == { i \in 1..(Len(s) - Len(prefix)) :
                     /\ SubSeq(s, i, i + Len(prefix) - 1) = prefix
                     /\ DigitsEnd(s, i + Len(prefix)) >= i + Len(prefix) }
    IN  IF hits = {} THEN s
        ELSE LET i == CHOOSE k \in hits : \A j \in hits : k <= j
             IN  SubSeq(s, 1, i - 1) \o repl
                   \o SubSeq(s, DigitsEnd(s, i + Len(prefix)) + 1, Len(s))

\* s.split(sep)[1]: the text between the first and the second sep; NoPart
\* (undefined) when s holds no sep.
NoPart == [found |-> FALSE, text |-> ""]
SplitSecond(s, sep) ==
    LET i == IndexOf(s, sep)
    IN  IF i = 0 THEN NoPart
        ELSE LET rest == SubSeq(s, i + Len(sep), Len(s))
                 j    == IndexOf(rest, sep)
             IN  [found |-> TRUE,
                  text  |-> IF j = 0 THEN rest ELSE SubSeq(rest, 1, j - 1)]

---------------------------------------------------------------------------
(* JavaScript values: what replicate.run may resolve to *)

Str(s)    == [t |-> "string", v |-> s]
Num(n)    == [t |-> "number", v |-> n]
List(vs)  == [t |-> "array", v |-> vs]
Obj(fs)   == [t |-> "object", v |-> fs]   \* fs: the own fields <<[k, v], ...>>
Null      == [t |-> "null", v |-> 0]
Undefined == [t |-> "undefined", v |-> 0]
Field(k, val) == [k |-> k, v |-> val]

\* ToBoolean
Truthy(x) ==
    CASE x.t = "string" -> x.v # ""
      [] x.t = "number" -> x.v # 0
      [] x.t \in {"null", "undefined"} -> FALSE
      [] OTHER -> TRUE

\* typeof x
TypeOf(x) ==
    CASE x.t \in {"array", "object", "null"} -> "object"
      [] OTHER -> x.t

\* A canonical array index ("0", "7", "12"): such keys come first, in
\* ascending order, in Object.values and JSON.stringify.
IsIndexKey(k) ==
    /\ k # ""
    /\ \A i \in 1..Len(k) : IsDigit(SubSeq(k, i, i))
    /\ (Len(k) = 1 \/ SubSeq(k, 1, 1) # "0")

RECURSIVE KeyNumber(_)
KeyNumber(k) ==
    IF k = "" THEN 0
    ELSE 10 * KeyNumber(SubSeq(k, 1, Len(k) - 1))
           + (IndexOf(DecimalDigits, SubSeq(k, Len(k), Len(k))) - 1)

RECURSIVE SortByIndex(_)
SortByIndex(fs) ==
    IF fs = <<>> THEN <<>>
    ELSE LET m == CHOOSE i \in 1..Len(fs) :
                     \A j \in 1..Len(fs) : KeyNumber(fs[i].k) <= KeyNumber(fs[j].k)
         IN  <<fs[m]>> \o SortByIndex(SubSeq(fs, 1, m - 1) \o SubSeq(fs, m + 1, Len(fs)))

\* The own enumerable fields in property order.
OwnFields(o) ==
    SortByIndex(SelectSeq(o.v, LAMBDA f : IsIndexKey(f.k)))
      \o SelectSeq(o.v, LAMBDA f : ~IsIndexKey(f.k))

\* Object.values(o)
ObjectValues(o) ==
    IF o.t = "object" THEN [i \in 1..Len(o.v) |-> OwnFields(o)[i].v]
    ELSE IF o.t = "array" THEN o.v
    ELSE <<>>

\* k in o, for a plain object or an array
HasProperty(o, k) ==
    CASE o.t = "object" -> \E i \in 1..Len(o.v) : o.v[i].k = k
      [] o.t = "array"  -> k = "length" \/ (IsIndexKey(k) /\ KeyNumber(k) < Len(o.v))
      [] OTHER -> FALSE

\* o[k], for a value that is neither null nor undefined
GetProperty(o, k) ==
    CASE o.t = "object" /\ HasProperty(o, k) ->
             o.v[CHOOSE i \in 1..Len(o.v) : o.v[i].k = k].v
      [] o.t = "array" /\ k = "length" -> Num(Len(o.v))
      [] o.t = "array" /\ HasProperty(o, k) -> o.v[KeyNumber(k) + 1]
      [] o.t = "string" /\ IsIndexKey(k) /\ KeyNumber(k) < Len(o.v) ->
             Str(SubSeq(o.v, KeyNumber(k) + 1, KeyNumber(k) + 1))
      [] OTHER -> Undefined

RECURSIVE JoinWith(_, _)
JoinWith(parts, sep) ==
    IF parts = <<>> THEN ""
    ELSE IF Len(parts) = 1 THEN parts[1]
    ELSE parts[1] \o sep \o JoinWith(Tail(parts), sep)

\* JSON.stringify(x), compact; as a template-literal part, undefined prints
\* as "undefined".  An undefined array element prints as null and an
\* undefined field is left out.
RECURSIVE JsonStringify(_)
JsonStringify(x) ==
    CASE x.t = "string"    -> "\"" \o x.v \o "\""
      [] x.t = "number"    -> ToString(x.v)
      [] x.t = "null"      -> "null"
      [] x.t = "undefined" -> "undefined"
      [] x.t = "array"     ->
             "[" \o JoinWith([i \in 1..Len(x.v) |->
                                IF x.v[i].t = "undefined" THEN "null"
                                ELSE JsonStringify(x.v[i])], ",") \o "]"
      [] x.t = "object"    ->
             LET fs == SelectSeq(OwnFields(x), LAMBDA f : f.v.t # "undefined")
             IN  "{" \o JoinWith([i \in 1..Len(fs) |->
                                    "\"" \o fs[i].k \o "\":" \o JsonStringify(fs[i].v)],
                                 ",") \o "}"

---------------------------------------------------------------------------
(* The prompt generator *)

\* What a lookup table[key] finds on Object.prototype when key is no own
\* property of the table literal: a function or the prototype itself, all of
\* them truthy, here as the text a template literal prints for them.
ObjectPrototype ==
    { <<"constructor", "function Object() { [native code] }">>,
      <<"toString", "function toString() { [native code] }">>,
      <<"toLocaleString", "function toLocaleString() { [native code] }">>,
      <<"valueOf", "function valueOf() { [native code] }">>,
      <<"hasOwnProperty", "function hasOwnProperty() { [native code] }">>,
      <<"isPrototypeOf", "function isPrototypeOf() { [native code] }">>,
      <<"propertyIsEnumerable", "function propertyIsEnumerable() { [native code] }">>,
      <<"__proto__", "[object Object]">> }

\* table[key] || fallback, for an object literal of non-empty strings
LookupOr(table, key, fallback) ==
    IF \E e \in table : e[1] = key
    THEN (CHOOSE e \in table : e[1] = key)[2]
    ELSE IF \E e \in ObjectPrototype : e[1] = key
    THEN (CHOOSE e \in ObjectPrototype : e[1] = key)[2]
    ELSE fallback

MATERIAL_TYPES ==
    { <<"leather", "premium leather texture">>,
      <<"fabric", "high-end textile weave">>,
      <<"wood", "natural wood grain">>,
      <<"metal", "brushed metal finish">>,
      <<"velvet", "luxurious velvet upholstery">>,
      <<"linen", "natural linen fabric">>,
      <<"cotton", "premium cotton blend">>,
      <<"microfiber", "soft microfiber material">> }

FURNITURE_PARTS ==
    { <<"cushion", "sofa cushion">>,
      <<"seat", "chair seat">>,
      <<"backrest", "chair backrest">>,
      <<"armrest", "chair armrest">>,
      <<"leg", "furniture leg">>,
      <<"table_top", "table surface">>,
      <<"drawer", "drawer front">>,
      <<"door", "cabinet door">>,
      <<"frame", "furniture frame">> }

generateInpaintingPrompt(furniturePart, material, color) ==
    LET materialDesc == LookupOr(MATERIAL_TYPES, material, "premium material")
        partDesc     == LookupOr(FURNITURE_PARTS, furniturePart, "furniture part")
    IN  "Photorealistic " \o materialDesc \o " on " \o partDesc \o ", " \o color
          \o ", high-end textile weave, professional product photography, 8k resolution, maintaining original lighting and shadows, seamless material transition, no color bleeding, precise edges"

colorMap ==
    { <<"#FF0000", "red">>, <<"#00FF00", "green">>, <<"#0000FF", "blue">>,
      <<"#FFFF00", "yellow">>, <<"#FF00FF", "magenta">>, <<"#00FFFF", "cyan">>,
      <<"#000000", "black">>, <<"#FFFFFF", "white">>, <<"#808080", "gray">>,
      <<"#800000", "maroon">>, <<"#008000", "dark green">>, <<"#000080", "navy">>,
      <<"#FFA500", "orange">>, <<"#800080", "purple">>, <<"#A52A2A", "brown">>,
      <<"#FFC0CB", "pink">>, <<"#F5DEB3", "wheat">>, <<"#D2B48C", "tan">>,
      <<"#8B4513", "saddle brown">>, <<"#2F4F4F", "dark slate gray">> }

\* A faulty variant of getColorName: the table is consulted with the hex
\* as given.
getColorName_AsGiven(hex) == LookupOr(colorMap, hex, "color " \o hex)

getColorName(hex) == LookupOr(colorMap, ToUpperCase(hex), "color " \o hex)

---------------------------------------------------------------------------
(* HTTP requests and responses *)

\* A JSON body is a record holding the fields the client sent; a field the
\* client left out is undefined.  The README types every field of the three
\* AI endpoints as a string (the two tuning numbers are kept as their
\* literals).
Has(body, k) == k \in DOMAIN body
Falsy(body, k) == ~Has(body, k) \/ body[k] = ""          \* !field
OrDefault(body, k, d) == IF Has(body, k) THEN body[k] ELSE d

NoBody     == [none |-> TRUE]
NoRequest  == [route |-> "", id |-> 0, body |-> NoBody]
NoResponse == [status |-> 0, body |-> NoBody]
NoThrow    == [isError |-> FALSE, message |-> "", value |-> Undefined]
NoOutcome  == [kind |-> "none", output |-> Undefined, thrown |-> NoThrow]

NoSnapshot ==
    [projects |-> {}, projectImages |-> {}, segmentationMasks |-> {},
     colorApplications |-> {}, professionalResults |-> {}, recentColors |-> {},
     canvasStates |-> {}, uploads |-> <<>>]
Snapshot ==
    [projects |-> projects, projectImages |-> projectImages,
     segmentationMasks |-> segmentationMasks,
     colorApplications |-> colorApplications,
     professionalResults |-> professionalResults, recentColors |-> recentColors,
     canvasStates |-> canvasStates, uploads |-> uploads]

Request(route, id, body) == [route |-> route, id |-> id, body |-> body]
Response(status, body)   == [status |-> status, body |-> body]

\* What replicate.run rejects with: an Error, or any other thrown value.
ThrownError(message) == [isError |-> TRUE, message |-> message, value |-> Undefined]
ThrownValue(value)   == [isError |-> FALSE, message |-> "", value |-> value]

\* String(x)
RECURSIVE ToStringJS(_)
ToStringJS(x) ==
    CASE x.t = "string"    -> x.v
      [] x.t = "number"    -> ToString(x.v)
      [] x.t = "null"      -> "null"
      [] x.t = "undefined" -> "undefined"
      [] x.t = "array"     ->
             JoinWith([i \in 1..Len(x.v) |->
                         IF x.v[i].t \in {"null", "undefined"} THEN ""
                         ELSE ToStringJS(x.v[i])], ",")
      [] x.t = "object"    -> "[object Object]"

\* catch (error): error instanceof Error ? error.message : String(error)
ErrorText(thrown) ==
    IF thrown.isError THEN thrown.message ELSE ToStringJS(thrown.value)

---------------------------------------------------------------------------
(* POST /api/professional-recolor *)

\* The image URL the handler prepares "for Replicate access".
ProcessedImageUrl(imageUrl, devDomain) ==
    LET local ==
            IF StartsWith(imageUrl, "/uploads") \/ StartsWith(imageUrl, "/attached_assets")
            THEN LET domain == IF devDomain # "" THEN "https://" \o devDomain ELSE ""
                 IN  IF domain # "" THEN domain \o imageUrl ELSE imageUrl
            ELSE IF StartsWith(imageUrl, "/@fs")
            THEN IF devDomain # ""
                 THEN LET workspacePath == SplitSecond(imageUrl, "/workspace/")
                      IN  IF workspacePath.found /\ workspacePath.text # ""
                          THEN "https://" \o devDomain \o "/" \o workspacePath.text
                          ELSE imageUrl
                 ELSE imageUrl
            ELSE imageUrl
    IN  IF Includes(local, "localhost") \/ Includes(local, "127.0.0.1")
        THEN IF devDomain # ""
             THEN ReplacePrefixDigits(
                      ReplacePrefixDigits(local, "http://localhost:",
                                          "https://" \o devDomain),
                      "http://127.0.0.1:", "https://" \o devDomain)
             ELSE local
        ELSE local

\* The prompt of the recolor endpoint: an inline template literal.
RecolorPrompt(colorName, material, furniturePart) ==
    colorName \o " " \o material \o " " \o furniturePart
      \o ", professional furniture photography, high-end, realistic, maintaining original lighting and shadows, seamless material transition, photorealistic"

\* The input object handed to replicate.run("stability-ai/sdxl", {input}).
RecolorInput(prompt, seed) ==
    [prompt              |-> prompt,
     negative_prompt     |-> "blurry, low quality, distorted, deformed, pixelated",
     num_outputs         |-> 1,
     scheduler           |-> "K_EULER",
     num_inference_steps |-> 50,
     guidance_scale      |-> "7.5",
     seed                |-> seed]

Chosen(v)  == [threw |-> FALSE, value |-> v, message |-> ""]
Throws(m)  == [threw |-> TRUE, value |-> Undefined, message |-> m]

IsHttpString(v) == v.t = "string" /\ StartsWith(v.v, "http")

\* A faulty variant of ExtractResultUrl: the url field is looked at before the
\* output field.
ExtractResultUrl_UrlFirst(output) ==
    IF output.t = "array" /\ Len(output.v) > 0
    THEN Chosen(output.v[1])
    ELSE IF TypeOf(output) = "string"
    THEN Chosen(output)
    ELSE IF Truthy(output) /\ TypeOf(output) = "object"
    THEN IF HasProperty(output, "url") /\ TypeOf(GetProperty(output, "url")) = "string"
         THEN Chosen(GetProperty(output, "url"))
         ELSE IF HasProperty(output, "output") /\ TypeOf(GetProperty(output, "output")) = "string"
         THEN Chosen(GetProperty(output, "output"))
         ELSE LET urls == SelectSeq(ObjectValues(output), IsHttpString)
              IN  IF urls # <<>>
                  THEN Chosen(urls[1])
                  ELSE Throws("Invalid output format from model: " \o JsonStringify(output))
    ELSE Throws("Invalid output format from model")

\* A faulty variant of ExtractResultUrl: the last element of a list is taken.
ExtractResultUrl_LastOfList(output) ==
    IF output.t = "array" /\ Len(output.v) > 0
    THEN Chosen(output.v[Len(output.v)])
    ELSE IF TypeOf(output) = "string"
    THEN Chosen(output)
    ELSE IF Truthy(output) /\ TypeOf(output) = "object"
    THEN IF HasProperty(output, "output") /\ TypeOf(GetProperty(output, "output")) = "string"
         THEN Chosen(GetProperty(output, "output"))
         ELSE IF HasProperty(output, "url") /\ TypeOf(GetProperty(output, "url")) = "string"
         THEN Chosen(GetProperty(output, "url"))
         ELSE LET urls == SelectSeq(ObjectValues(output), IsHttpString)
              IN  IF urls # <<>>
                  THEN Chosen(urls[1])
                  ELSE Throws("Invalid output format from model: " \o JsonStringify(output))
    ELSE Throws("Invalid output format from model")

\* "Handle different output formats": the if / else-if chain that assigns
\* resultUrl or throws.
ExtractResultUrl(output) ==
    IF output.t = "array" /\ Len(output.v) > 0
    THEN Chosen(output.v[1])
    ELSE IF TypeOf(output) = "string"
    THEN Chosen(output)
    ELSE IF Truthy(output) /\ TypeOf(output) = "object"
    THEN IF HasProperty(output, "output") /\ TypeOf(GetProperty(output, "output")) = "string"
         THEN Chosen(GetProperty(output, "output"))
         ELSE IF HasProperty(output, "url") /\ TypeOf(GetProperty(output, "url")) = "string"
         THEN Chosen(GetProperty(output, "url"))
         ELSE LET values == ObjectValues(output)
                  urls   == SelectSeq(values, IsHttpString)
              IN  IF urls # <<>>
                  THEN Chosen(urls[1])
                  ELSE Throws("Invalid output format from model: " \o JsonStringify(output))
    ELSE Throws("Invalid output format from model")

\* A faulty variant of ValidResultUrl: the http prefix is not looked at.
ValidResultUrl_AnyString(resultUrl) ==
    ~(\/ ~Truthy(resultUrl)
      \/ TypeOf(resultUrl) # "string")

\* "Validate the URL"
ValidResultUrl(resultUrl) ==
    ~(\/ ~Truthy(resultUrl)
      \/ TypeOf(resultUrl) # "string"
      \/ ~StartsWith(resultUrl.v, "http"))

RecolorFailure(message) ==
    Response(500, [message |-> "Failed to change furniture color", error |-> message])

\* A faulty variant of MissingRecolorParams: only an absent field counts, an
\* empty one passes.
MissingRecolorParams_OnlyUndefined(body) ==
    ~Has(body, "imageUrl") \/ ~Has(body, "color")

\* !imageUrl || !color
MissingRecolorParams(body) == Falsy(body, "imageUrl") \/ Falsy(body, "color")

\* The handler up to its await: validation, prompt, image URL, replicate.run.
RecolorRequest(body, seed) ==
    /\ pc = "idle"
    /\ req' = Request("POST /api/professional-recolor", 0, body)
    /\ before' = Snapshot
    /\ outcome' = NoOutcome
    /\ IF MissingRecolorParams(body)
       THEN /\ res' = Response(400, [message |-> "Missing required parameters: imageUrl, color"])
            /\ calls' = <<>>
            /\ pc' = "done"
       ELSE LET material      == OrDefault(body, "material", "fabric")
                furniturePart == OrDefault(body, "furniturePart", "cushion")
                colorName     == getColorName(body.color)
                prompt        == RecolorPrompt(colorName, material, furniturePart)
            IN  /\ calls' = <<[model |-> "stability-ai/sdxl",
                               input |-> RecolorInput(prompt, seed)]>>
                /\ res' = NoResponse
                /\ pc' = "awaiting"
    /\ UNCHANGED <<env, uploads, home, ws, ledger>>

\* The rest of the try block, once replicate.run resolved to output.
RecolorReturn(output) ==
    /\ pc = "awaiting"
    /\ req.route = "POST /api/professional-recolor"
    /\ outcome' = [kind |-> "returned", output |-> output, thrown |-> NoThrow]
    /\ LET body          == req.body
           material      == OrDefault(body, "material", "fabric")
           furniturePart == OrDefault(body, "furniturePart", "cushion")
           colorName     == getColorName(body.color)
           extracted     == ExtractResultUrl(output)
       IN  res' =
             IF extracted.threw
             THEN RecolorFailure(extracted.message)
             ELSE IF ~ValidResultUrl(extracted.value)
             THEN RecolorFailure("Invalid result URL received: "
                                   \o JsonStringify(extracted.value))
             ELSE Response(200,
                    [resultUrl |-> extracted.value,
                     maskUrl   |-> body.imageUrl,
                     prompt    |-> RecolorPrompt(colorName, material, furniturePart),
                     partLabel |-> furniturePart,
                     settings  |-> [material      |-> material,
                                    color         |-> colorName,
                                    furniturePart |-> furniturePart]])
    /\ pc' = "done"
    /\ UNCHANGED <<env, uploads, home, ws, req, calls, before, ledger>>

\* A faulty variant of RecolorCatch: the failure is also recorded as a
\* professional_results row.
RecolorCatch_RecordsFailure(thrown) ==
    /\ pc = "awaiting"
    /\ req.route = "POST /api/professional-recolor"
    /\ outcome' = [kind |-> "threw", output |-> Undefined, thrown |-> thrown]
    /\ res' = Response(500, [message |-> "Failed to change furniture color",
                             error   |-> ErrorText(thrown)])
    /\ pc' = "done"
    /\ professionalResults' = professionalResults \cup {[id |-> nextId, projectId |-> 0, maskId |-> 0]}
    /\ nextId' = nextId + 1
    /\ UNCHANGED <<env, uploads, home, ws, req, calls, before, projects, projectImages,
                   segmentationMasks, colorApplications, recentColors, canvasStates>>

\* The catch block, when replicate.run rejected.
RecolorCatch(thrown) ==
    /\ pc = "awaiting"
    /\ req.route = "POST /api/professional-recolor"
    /\ outcome' = [kind |-> "threw", output |-> Undefined, thrown |-> thrown]
    /\ res' = RecolorFailure(ErrorText(thrown))
    /\ pc' = "done"
    /\ UNCHANGED <<env, uploads, home, ws, req, calls, before, ledger>>

---------------------------------------------------------------------------
(* POST /api/inpaint-professional *)

\* The input object handed to replicate.run("black-forest-labs/flux-fill-pro").
InpaintInput(imageUrl, maskUrl, prompt, promptStrength, maskBlur, seed) ==
    [image               |-> imageUrl,
     mask                |-> maskUrl,
     prompt              |-> prompt,
     prompt_strength     |-> promptStrength,
     mask_blur           |-> maskBlur,
     num_inference_steps |-> 28,
     guidance_scale      |-> "3.5",
     seed                |-> seed]

\* typeof output === 'string' ? output : (output as any)[0] || imageUrl
\* Reading [0] of null or undefined throws a TypeError.
InpaintResultUrl(output, imageUrl) ==
    IF TypeOf(output) = "string"
    THEN Chosen(output)
    ELSE IF output.t \in {"null", "undefined"}
    THEN Throws("Cannot read properties of " \o output.t \o " (reading '0')")
    ELSE IF Truthy(GetProperty(output, "0"))
    THEN Chosen(GetProperty(output, "0"))
    ELSE Chosen(Str(imageUrl))

InpaintFailure(message) ==
    Response(500, [message |-> "Failed to apply professional material change",
                   error   |-> message])

InpaintPrompt(body) ==
    generateInpaintingPrompt(OrDefault(body, "furniturePart", "cushion"),
                             OrDefault(body, "material", "fabric"),
                             getColorName(body.color))

\* A faulty variant of InpaintRequest: maskUrl is not among the required
\* parameters.
InpaintRequest_MaskOptional(body, seed) ==
    /\ pc = "idle"
    /\ req' = Request("POST /api/inpaint-professional", 0, body)
    /\ before' = Snapshot
    /\ outcome' = NoOutcome
    /\ IF Falsy(body, "imageUrl") \/ Falsy(body, "color")
       THEN /\ res' = Response(400,
                        [message |-> "Missing required parameters: imageUrl, maskUrl, color"])
            /\ calls' = <<>>
            /\ pc' = "done"
       ELSE /\ calls' = <<[model |-> "black-forest-labs/flux-fill-pro",
                           input |-> InpaintInput(body.imageUrl, OrDefault(body, "maskUrl", ""),
                                                  InpaintPrompt(body),
                                                  OrDefault(body, "promptStrength", "0.5"),
                                                  OrDefault(body, "maskBlur", "0"),
                                                  seed)]>>
            /\ res' = NoResponse
            /\ pc' = "awaiting"
    /\ UNCHANGED <<env, uploads, home, ws, ledger>>

\* The handler up to its await.
InpaintRequest(body, seed) ==
    /\ pc = "idle"
    /\ req' = Request("POST /api/inpaint-professional", 0, body)
    /\ before' = Snapshot
    /\ outcome' = NoOutcome
    /\ IF Falsy(body, "imageUrl") \/ Falsy(body, "maskUrl") \/ Falsy(body, "color")
       THEN /\ res' = Response(400,
                        [message |-> "Missing required parameters: imageUrl, maskUrl, color"])
            /\ calls' = <<>>
            /\ pc' = "done"
       ELSE /\ calls' = <<[model |-> "black-forest-labs/flux-fill-pro",
                           input |-> InpaintInput(body.imageUrl, body.maskUrl,
                                                  InpaintPrompt(body),
                                                  OrDefault(body, "promptStrength", "0.5"),
                                                  OrDefault(body, "maskBlur", "0"),
                                                  seed)]>>
            /\ res' = NoResponse
            /\ pc' = "awaiting"
    /\ UNCHANGED <<env, uploads, home, ws, ledger>>

\* The rest of the try block, once replicate.run resolved to output.
InpaintReturn(output) ==
    /\ pc = "awaiting"
    /\ req.route = "POST /api/inpaint-professional"
    /\ outcome' = [kind |-> "returned", output |-> output, thrown |-> NoThrow]
    /\ LET body   == req.body
           result == InpaintResultUrl(output, body.imageUrl)
       IN  res' =
             IF result.threw
             THEN InpaintFailure(result.message)
             ELSE Response(200,
                    [resultUrl |-> result.value,
                     prompt    |-> InpaintPrompt(body),
                     settings  |-> [promptStrength |-> OrDefault(body, "promptStrength", "0.5"),
                                    maskBlur       |-> OrDefault(body, "maskBlur", "0"),
                                    material       |-> OrDefault(body, "material", "fabric"),
                                    furniturePart  |-> OrDefault(body, "furniturePart", "cushion"),
                                    color          |-> getColorName(body.color)]])
    /\ pc' = "done"
    /\ UNCHANGED <<env, uploads, home, ws, req, calls, before, ledger>>

\* A faulty variant of InpaintCatch: a rejected call is tried once more.
InpaintCatch_Retries(thrown) ==
    /\ pc = "awaiting"
    /\ req.route = "POST /api/inpaint-professional"
    /\ IF Len(calls) < 2
       THEN /\ calls' = Append(calls, calls[1])
            /\ UNCHANGED <<pc, outcome, res>>
       ELSE /\ outcome' = [kind |-> "threw", output |-> Undefined, thrown |-> thrown]
            /\ res' = Response(500, [message |-> "Failed to apply professional material change",
                                     error   |-> ErrorText(thrown)])
            /\ pc' = "done"
            /\ UNCHANGED calls
    /\ UNCHANGED <<env, uploads, home, ws, req, before, ledger>>

\* The catch block, when replicate.run rejected.
InpaintCatch(thrown) ==
    /\ pc = "awaiting"
    /\ req.route = "POST /api/inpaint-professional"
    /\ outcome' = [kind |-> "threw", output |-> Undefined, thrown |-> thrown]
    /\ res' = InpaintFailure(ErrorText(thrown))
    /\ pc' = "done"
    /\ UNCHANGED <<env, uploads, home, ws, req, calls, before, ledger>>

---------------------------------------------------------------------------
(* POST /api/segment-professional *)

\* x || fallback for a body field that, when sent, is a string
StringOr(body, k, fallback) == IF Falsy(body, k) THEN fallback ELSE body[k]

\* x || null for a body field that, when sent, is a number
NumberOrNull(body, k) == IF ~Has(body, k) \/ body[k] = 0 THEN Null ELSE Num(body[k])

SegmentAnswer(body) ==
    Response(200,
      [maskId      |-> Null,
       maskUrl     |-> body.imageUrl,
       partLabel   |-> StringOr(body, "furniturePart", "furniture_part"),
       boundingBox |-> [x |-> 0, y |-> 0, width |-> 0, height |-> 0],
       confidence  |-> 1,
       clickX      |-> NumberOrNull(body, "clickX"),
       clickY      |-> NumberOrNull(body, "clickY")])

\* A faulty variant of SegmentProfessional: the segmentation model is run.
SegmentProfessional_CallsProvider(body) ==
    /\ pc = "idle"
    /\ req' = Request("POST /api/segment-professional", 0, body)
    /\ before' = Snapshot
    /\ outcome' = NoOutcome
    /\ IF Falsy(body, "imageUrl")
       THEN /\ res' = Response(400, [message |-> "Missing required parameter: imageUrl"])
            /\ calls' = <<>>
       ELSE /\ res' = SegmentAnswer(body)
            /\ calls' = <<[model |-> "meta/sam-2", input |-> [image |-> body.imageUrl]]>>
    /\ pc' = "done"
    /\ UNCHANGED <<env, uploads, home, ws, ledger>>

\* POST /api/segment-professional: the placeholder that echoes the image.
SegmentProfessional(body) ==
    /\ pc = "idle"
    /\ req' = Request("POST /api/segment-professional", 0, body)
    /\ before' = Snapshot
    /\ outcome' = NoOutcome
    /\ calls' = <<>>
    /\ res' = IF Falsy(body, "imageUrl")
              THEN Response(400, [message |-> "Missing required parameter: imageUrl"])
              ELSE SegmentAnswer(body)
    /\ pc' = "done"
    /\ UNCHANGED <<env, uploads, home, ws, ledger>>

---------------------------------------------------------------------------
(* The ledger: the tables of the migration and the routes that write them *)

MaxRows == 5      \* rows ever created in one run (row ids are 1..MaxRows)

RowIds == 1..MaxRows
Ids(rows) == { r.id : r \in rows }

\* "" stands for a NULL preview_image_url.
ProjectRow(id, name) == [id |-> id, name |-> name, previewImageUrl |-> ""]
\* The row that insert / update write for a validated body.
ProjectRowOf(row, body) ==
    [row EXCEPT !.name = body.name,
                !.previewImageUrl = OrDefault(body, "previewImageUrl", @)]
ImageRow(id, projectId, path) ==
    [id |-> id, projectId |-> projectId, originalImagePath |-> path]
MaskRow(id, imageId) == [id |-> id, imageId |-> imageId]
ColorRow(id, projectId, maskId, fillHex) ==
    [id |-> id, projectId |-> projectId, maskId |-> maskId, fillHex |-> fillHex]
ResultRow(id, projectId, maskId) ==
    [id |-> id, projectId |-> projectId, maskId |-> maskId]
CanvasRow(id, projectId, zoom) == [id |-> id, projectId |-> projectId, zoom |-> zoom]

\* A faulty variant of DeleteProjectCascade: only the rows that hold the
\* project's id go; the masks of its images stay.
DeleteProjectCascade_DirectOnly(pid) ==
    /\ projects' = { p \in projects : p.id # pid }
    /\ projectImages' = { i \in projectImages : i.projectId # pid }
    /\ colorApplications' = { c \in colorApplications : c.projectId # pid }
    /\ professionalResults' = { r \in professionalResults : r.projectId # pid }
    /\ recentColors' = { r \in recentColors : r.projectId # pid }
    /\ canvasStates' = { c \in canvasStates : c.projectId # pid }
    /\ UNCHANGED segmentationMasks

\* DELETE FROM projects WHERE id = pid, with every ON DELETE CASCADE
\* foreign key of the migration followed: project_images, recent_colors,
\* canvas_states, color_applications and professional_results by project_id;
\* segmentation_masks by image_id; color_applications and
\* professional_results also by mask_id.
DeleteProjectCascade(pid) ==
    LET gone      == { p \in projects : p.id = pid }
        goneImgs  == { i \in projectImages : i.projectId \in Ids(gone) }
        goneMasks == { m \in segmentationMasks : m.imageId \in Ids(goneImgs) }
    IN  /\ projects' = projects \ gone
        /\ projectImages' = projectImages \ goneImgs
        /\ segmentationMasks' = segmentationMasks \ goneMasks
        /\ colorApplications' =
             { c \in colorApplications :
                 c.projectId \notin Ids(gone) /\ c.maskId \notin Ids(goneMasks) }
        /\ professionalResults' =
             { r \in professionalResults :
                 r.projectId \notin Ids(gone) /\ r.maskId \notin Ids(goneMasks) }
        /\ recentColors' = { r \in recentColors : r.projectId \notin Ids(gone) }
        /\ canvasStates' = { c \in canvasStates : c.projectId \notin Ids(gone) }

\* insertProjectSchema.parse: name is the one NOT NULL column without default.
ValidProjectBody(body) == Has(body, "name")

\* POST /api/projects
CreateProject(body) ==
    /\ pc = "idle"
    /\ req' = Request("POST /api/projects", 0, body)
    /\ before' = Snapshot
    /\ IF ~ValidProjectBody(body)
       THEN /\ res' = Response(400, [message |-> "Invalid project data"])
            /\ UNCHANGED ledger
       ELSE /\ nextId <= MaxRows
            /\ projects' = projects \cup {ProjectRowOf(ProjectRow(nextId, ""), body)}
            /\ nextId' = nextId + 1
            /\ res' = Response(200, [project |-> ProjectRowOf(ProjectRow(nextId, ""), body)])
            /\ UNCHANGED <<projectImages, segmentationMasks, colorApplications,
                           professionalResults, recentColors, canvasStates>>
    /\ pc' = "done"
    /\ calls' = <<>>
    /\ outcome' = NoOutcome
    /\ UNCHANGED <<env, uploads, home, ws>>

\* PUT /api/projects/:id
UpdateProject(id, body) ==
    /\ pc = "idle"
    /\ req' = Request("PUT /api/projects/:id", id, body)
    /\ before' = Snapshot
    /\ IF ~ValidProjectBody(body)
       THEN /\ res' = Response(400, [message |-> "Invalid project data"])
            /\ UNCHANGED projects
       ELSE /\ projects' = { IF p.id = id THEN ProjectRowOf(p, body) ELSE p :
                               p \in projects }
            /\ res' = IF id \in Ids(projects)
                      THEN Response(200,
                             [project |-> ProjectRowOf(CHOOSE p \in projects : p.id = id,
                                                       body)])
                      ELSE Response(404, [message |-> "Project not found"])
    /\ pc' = "done"
    /\ calls' = <<>>
    /\ outcome' = NoOutcome
    /\ UNCHANGED <<env, uploads, home, ws, projectImages, segmentationMasks,
                   colorApplications, professionalResults, recentColors,
                   canvasStates, nextId>>

\* DELETE /api/projects/:id
DeleteProject(id) ==
    /\ pc = "idle"
    /\ req' = Request("DELETE /api/projects/:id", id, NoBody)
    /\ before' = Snapshot
    /\ DeleteProjectCascade(id)
    /\ res' = Response(200, [message |-> "Project deleted successfully"])
    /\ pc' = "done"
    /\ calls' = <<>>
    /\ outcome' = NoOutcome
    /\ UNCHANGED <<env, uploads, home, ws, nextId>>

\* What GET /api/projects/:id answers in the current ledger.
GetProjectResponse(id) ==
    IF { p \in projects : p.id = id } = {}
    THEN Response(404, [message |-> "Project not found"])
    ELSE Response(200,
           [project           |-> CHOOSE p \in projects : p.id = id,
            images            |-> { i \in projectImages : i.projectId = id },
            colorApplications |-> { c \in colorApplications : c.projectId = id }])

\* GET /api/projects/:id
GetProject(id) ==
    /\ pc = "idle"
    /\ req' = Request("GET /api/projects/:id", id, NoBody)
    /\ before' = Snapshot
    /\ res' = GetProjectResponse(id)
    /\ pc' = "done"
    /\ calls' = <<>>
    /\ outcome' = NoOutcome
    /\ UNCHANGED <<env, uploads, home, ws, ledger>>

\* insertProjectImageSchema.parse({...req.body, projectId})
ValidImageBody(body) == Has(body, "originalImagePath")

\* A faulty variant of AddProjectImage: the insert is made without the
\* project_id foreign key being checked.
AddProjectImage_NoForeignKey(projectId, body) ==
    /\ pc = "idle"
    /\ req' = Request("POST /api/projects/:projectId/images", projectId, body)
    /\ before' = Snapshot
    /\ IF ~ValidImageBody(body)
       THEN /\ res' = Response(400, [message |-> "Invalid image data"])
            /\ UNCHANGED <<projectImages, nextId>>
       ELSE /\ nextId <= MaxRows
            /\ projectImages' = projectImages
                 \cup {ImageRow(nextId, projectId, body.originalImagePath)}
            /\ nextId' = nextId + 1
            /\ res' = Response(200,
                        [image |-> ImageRow(nextId, projectId, body.originalImagePath)])
    /\ pc' = "done"
    /\ calls' = <<>>
    /\ outcome' = NoOutcome
    /\ UNCHANGED <<env, uploads, home, ws, projects, segmentationMasks,
                   colorApplications, professionalResults, recentColors, canvasStates>>

\* POST /api/projects/:projectId/images
AddProjectImage(projectId, body) ==
    /\ pc = "idle"
    /\ req' = Request("POST /api/projects/:projectId/images", projectId, body)
    /\ before' = Snapshot
    /\ IF ~ValidImageBody(body)
       THEN /\ res' = Response(400, [message |-> "Invalid image data"])
            /\ UNCHANGED <<projectImages, nextId>>
       ELSE IF projectId \notin Ids(projects)       \* foreign key violation
       THEN /\ res' = Response(500, [message |-> "Failed to save image"])
            /\ UNCHANGED <<projectImages, nextId>>
       ELSE /\ nextId <= MaxRows
            /\ projectImages' = projectImages
                 \cup {ImageRow(nextId, projectId, body.originalImagePath)}
            /\ nextId' = nextId + 1
            /\ res' = Response(200,
                        [image |-> ImageRow(nextId, projectId, body.originalImagePath)])
    /\ pc' = "done"
    /\ calls' = <<>>
    /\ outcome' = NoOutcome
    /\ UNCHANGED <<env, uploads, home, ws, projects, segmentationMasks,
                   colorApplications, professionalResults, recentColors, canvasStates>>

\* insertColorApplicationSchema.parse(req.body)
ValidColorBody(body) ==
    Has(body, "projectId") /\ Has(body, "maskId") /\ Has(body, "fillHex")

\* A faulty variant of RecordColor: the color is stored in place of the one
\* the project and mask already have.
RecordColor_Overwrites(body) ==
    /\ pc = "idle"
    /\ req' = Request("POST /api/colors", 0, body)
    /\ before' = Snapshot
    /\ IF ~ValidColorBody(body)
       THEN /\ res' = Response(400, [message |-> "Invalid color data"])
            /\ UNCHANGED <<colorApplications, nextId>>
       ELSE IF \/ body.projectId \notin Ids(projects)
               \/ body.maskId \notin Ids(segmentationMasks)
       THEN /\ res' = Response(500, [message |-> "Failed to save color"])
            /\ UNCHANGED <<colorApplications, nextId>>
       ELSE /\ nextId <= MaxRows
            /\ colorApplications' =
                 { c \in colorApplications :
                     c.projectId # body.projectId \/ c.maskId # body.maskId }
                 \cup {ColorRow(nextId, body.projectId, body.maskId, body.fillHex)}
            /\ nextId' = nextId + 1
            /\ res' = Response(200,
                        [color |-> ColorRow(nextId, body.projectId, body.maskId,
                                            body.fillHex)])
    /\ pc' = "done"
    /\ calls' = <<>>
    /\ outcome' = NoOutcome
    /\ UNCHANGED <<env, uploads, home, ws, projects, projectImages, segmentationMasks,
                   professionalResults, recentColors, canvasStates>>

\* POST /api/colors
RecordColor(body) ==
    /\ pc = "idle"
    /\ req' = Request("POST /api/colors", 0, body)
    /\ before' = Snapshot
    /\ IF ~ValidColorBody(body)
       THEN /\ res' = Response(400, [message |-> "Invalid color data"])
            /\ UNCHANGED <<colorApplications, nextId>>
       ELSE IF \/ body.projectId \notin Ids(projects)       \* foreign key violation
               \/ body.maskId \notin Ids(segmentationMasks)
       THEN /\ res' = Response(500, [message |-> "Failed to save color"])
            /\ UNCHANGED <<colorApplications, nextId>>
       ELSE /\ nextId <= MaxRows
            /\ colorApplications' = colorApplications
                 \cup {ColorRow(nextId, body.projectId, body.maskId, body.fillHex)}
            /\ nextId' = nextId + 1
            /\ res' = Response(200,
                        [color |-> ColorRow(nextId, body.projectId, body.maskId,
                                            body.fillHex)])
    /\ pc' = "done"
    /\ calls' = <<>>
    /\ outcome' = NoOutcome
    /\ UNCHANGED <<env, uploads, home, ws, projects, projectImages, segmentationMasks,
                   professionalResults, recentColors, canvasStates>>

\* No route writes these tables; their rows come from SQL INSERTs, which the
\* migration's policies allow to any client and its constraints check.
\* (recent_colors has no writer among the routes either, and stays empty.)
\* A route handler runs one statement, so an INSERT falls before or after it.

\* INSERT INTO segmentation_masks
InsertMask(imageId) ==
    /\ pc = "idle"
    /\ nextId <= MaxRows
    /\ imageId \in Ids(projectImages)
    /\ segmentationMasks' = segmentationMasks \cup {MaskRow(nextId, imageId)}
    /\ nextId' = nextId + 1
    /\ UNCHANGED <<env, uploads, home, ws, http, projects, projectImages, colorApplications,
                   professionalResults, recentColors, canvasStates>>

\* INSERT INTO professional_results
InsertResult(projectId, maskId) ==
    /\ pc = "idle"
    /\ nextId <= MaxRows
    /\ projectId \in Ids(projects)
    /\ maskId \in Ids(segmentationMasks)
    /\ professionalResults' = professionalResults \cup {ResultRow(nextId, projectId, maskId)}
    /\ nextId' = nextId + 1
    /\ UNCHANGED <<env, uploads, home, ws, http, projects, projectImages, segmentationMasks,
                   colorApplications, recentColors, canvasStates>>

\* A faulty variant of InsertCanvasState: project_id is not UNIQUE.
InsertCanvasState_NoUnique(projectId, zoom) ==
    /\ pc = "idle"
    /\ nextId <= MaxRows
    /\ projectId \in Ids(projects)
    /\ canvasStates' = canvasStates \cup {CanvasRow(nextId, projectId, zoom)}
    /\ nextId' = nextId + 1
    /\ UNCHANGED <<env, uploads, home, ws, http, projects, projectImages, segmentationMasks,
                   colorApplications, professionalResults, recentColors>>

\* INSERT INTO canvas_states (project_id is UNIQUE)
InsertCanvasState(projectId, zoom) ==
    /\ pc = "idle"
    /\ nextId <= MaxRows
    /\ projectId \in Ids(projects)
    /\ \A c \in canvasStates : c.projectId # projectId
    /\ canvasStates' = canvasStates \cup {CanvasRow(nextId, projectId, zoom)}
    /\ nextId' = nextId + 1
    /\ UNCHANGED <<env, uploads, home, ws, http, projects, projectImages, segmentationMasks,
                   colorApplications, professionalResults, recentColors>>

\* The canvas state upsert of the storage layer, which is not among the
\* routes: one row per project, keyed by project_id, overwritten by a later
\* write (INSERT ... ON CONFLICT (project_id) DO UPDATE).  A project that
\* does not exist fails the foreign key, which surfaces as not found.
UpsertCanvasState(projectId, zoom) ==
    /\ pc = "idle"
    /\ req' = Request("upsert canvas_states", projectId, [zoom |-> zoom])
    /\ before' = Snapshot
    /\ IF projectId \notin Ids(projects)
       THEN /\ res' = Response(404, [message |-> "Project not found"])
            /\ UNCHANGED <<canvasStates, nextId>>
       ELSE IF \E c \in canvasStates : c.projectId = projectId
       THEN /\ canvasStates' =
                 { IF c.projectId = projectId THEN CanvasRow(c.id, projectId, zoom)
                   ELSE c : c \in canvasStates }
            /\ res' = Response(200, [zoom |-> zoom])
            /\ UNCHANGED nextId
       ELSE /\ nextId <= MaxRows
            /\ canvasStates' = canvasStates \cup {CanvasRow(nextId, projectId, zoom)}
            /\ nextId' = nextId + 1
            /\ res' = Response(200, [zoom |-> zoom])
    /\ pc' = "done"
    /\ calls' = <<>>
    /\ outcome' = NoOutcome
    /\ UNCHANGED <<env, uploads, home, ws, projects, projectImages, segmentationMasks,
                   colorApplications, professionalResults, recentColors>>

---------------------------------------------------------------------------
(* POST /api/upload: multer in front of the handler, and the upload store *)

LowerChar(c) ==
    LET i == IndexOf(UpperCaseLetters, c)
    IN  IF i = 0 THEN c ELSE SubSeq(LowerCaseLetters, i, i)

RECURSIVE ToLowerCase(_)
ToLowerCase(s) ==
    IF s = "" THEN ""
    ELSE LowerChar(SubSeq(s, 1, 1)) \o ToLowerCase(SubSeq(s, 2, Len(s)))

LastIndexOf(s, p) ==
    LET hits == { i \in 1..(Len(s) - Len(p) + 1) : SubSeq(s, i, i + Len(p) - 1) = p }
    IN  IF hits = {} THEN 0 ELSE CHOOSE i \in hits : \A j \in hits : i >= j

\* path.extname: from the last "." of the last path segment to its end; ""
\* when there is no "." or the segment only starts with one.
extname(path) ==
    LET base == SubSeq(path, LastIndexOf(path, "/") + 1, Len(path))
        dot  == LastIndexOf(base, ".")
    IN  IF dot <= 1 \/ base = ".." THEN "" ELSE SubSeq(base, dot, Len(base))

ALLOWED_MIME_TYPES ==
    {"image/jpeg", "image/jpg", "image/png", "image/gif", "image/webp"}

\* limits: { fileSize: 10 * 1024 * 1024 }
fileSizeLimit == 10 * 1024 * 1024

\* A faulty variant of fileFilter: any image/* type is let through.
fileFilter_AnyImage(mimetype) == StartsWith(mimetype, "image/")

\* fileFilter: cb(null, true) or cb(new Error(...))
fileFilter(mimetype) == mimetype \in ALLOWED_MIME_TYPES

\* Whether multer's parser reports the file as over limits.fileSize.  A file
\* longer than the limit is; a shorter one is not.  For a file of exactly
\* the limit the parsers multer has shipped with differ: one reports the
\* limit when the bytes read exceed it, the other when they reach it.
LimitReports(size) ==
    IF size > fileSizeLimit THEN {TRUE}
    ELSE IF size < fileSizeLimit THEN {FALSE}
    ELSE {TRUE, FALSE}

\* An uploaded file as multer hands it over: the content is a token for the
\* byte string and size its length.
NoFile == [originalname |-> "", mimetype |-> "", size |-> 0, buffer |-> ""]
Content(file) == [bytes |-> file.buffer, size |-> file.size]

MaxUploads == 2      \* files written in one run

\* randomUUID(): an identifier no stored file name starts with.
FreshUuid == "f" \o ToString(Cardinality(DOMAIN uploads) + 1)

\* writeFile(join(UPLOAD_DIR, name), buffer): creates or replaces the file.
WriteFile(name, content) ==
    [n \in DOMAIN uploads \cup {name} |-> IF n = name THEN content ELSE uploads[n]]

UploadFailure(status, message) == Response(status, [message |-> message])

\* A faulty variant of Upload: the file is stored under the name the client
\* gave it.
Upload_OriginalName(file) ==
    /\ pc = "idle"
    /\ req' = Request("POST /api/upload", 0, [file |-> file])
    /\ before' = Snapshot
    /\ \E over \in LimitReports(file.size) :
         IF file = NoFile
         THEN /\ res' = UploadFailure(400, "No file uploaded")
              /\ UNCHANGED uploads
         ELSE IF ~fileFilter(file.mimetype)
         THEN /\ res' = UploadFailure(500, "Invalid file type. Only images are allowed.")
              /\ UNCHANGED uploads
         ELSE IF over
         THEN /\ res' = UploadFailure(500, "File too large")
              /\ UNCHANGED uploads
         ELSE LET safeFileName == file.originalname
                  imagePath    == "/uploads/" \o safeFileName
                  domain       == IF env # "" THEN "https://" \o env
                                  ELSE "http://localhost:5000"
              IN  /\ Cardinality(DOMAIN uploads) < MaxUploads
                  /\ uploads' = WriteFile(safeFileName, Content(file))
                  /\ res' = Response(200,
                              [path     |-> imagePath,
                               fullUrl  |-> domain \o imagePath,
                               filename |-> file.originalname,
                               size     |-> file.size,
                               mimetype |-> file.mimetype])
    /\ pc' = "done"
    /\ calls' = <<>>
    /\ outcome' = NoOutcome
    /\ UNCHANGED <<env, home, ws, ledger>>

\* POST /api/upload behind upload.single("image").  multer rejects the file
\* by type when its part begins and by size while reading it, and passes the
\* error on without calling the handler; no error middleware is registered
\* with the routes, so the answer is the framework's 500.
Upload(file) ==
    /\ pc = "idle"
    /\ req' = Request("POST /api/upload", 0, [file |-> file])
    /\ before' = Snapshot
    /\ \E over \in LimitReports(file.size) :
         IF file = NoFile
         THEN /\ res' = UploadFailure(400, "No file uploaded")
              /\ UNCHANGED uploads
         ELSE IF ~fileFilter(file.mimetype)
         THEN /\ res' = UploadFailure(500, "Invalid file type. Only images are allowed.")
              /\ UNCHANGED uploads
         ELSE IF over
         THEN /\ res' = UploadFailure(500, "File too large")
              /\ UNCHANGED uploads
         ELSE LET ext          == ToLowerCase(extname(file.originalname))
                  safeFileName == FreshUuid \o ext
                  imagePath    == "/uploads/" \o safeFileName
                  domain       == IF env # "" THEN "https://" \o env
                                  ELSE "http://localhost:5000"
              IN  /\ Cardinality(DOMAIN uploads) < MaxUploads
                  /\ uploads' = WriteFile(safeFileName, Content(file))
                  /\ res' = Response(200,
                              [path     |-> imagePath,
                               fullUrl  |-> domain \o imagePath,
                               filename |-> file.originalname,
                               size     |-> file.size,
                               mimetype |-> file.mimetype])
    /\ pc' = "done"
    /\ calls' = <<>>
    /\ outcome' = NoOutcome
    /\ UNCHANGED <<env, home, ws, ledger>>

\* GET <path>: the static serving of the upload directory under /uploads,
\* which is registered outside the routes file.
NotServed == [bytes |-> "", size |-> -1]
ServeUpload(path) ==
    IF StartsWith(path, "/uploads/")
          /\ SubSeq(path, Len("/uploads/") + 1, Len(path)) \in DOMAIN uploads
    THEN uploads[SubSeq(path, Len("/uploads/") + 1, Len(path))]
    ELSE NotServed

---------------------------------------------------------------------------
(* The two pure helpers of the routes file, called on their own *)

Returned(value) == [status |-> 0, body |-> [value |-> value]]

\* generateInpaintingPrompt(furniturePart, material, color)
CallGenerateInpaintingPrompt(furniturePart, material, color) ==
    /\ pc = "idle"
    /\ req' = Request("generateInpaintingPrompt", 0,
                      [furniturePart |-> furniturePart, material |-> material,
                       color |-> color])
    /\ res' = Returned(generateInpaintingPrompt(furniturePart, material, color))
    /\ before' = Snapshot
    /\ pc' = "done"
    /\ calls' = <<>>
    /\ outcome' = NoOutcome
    /\ UNCHANGED <<env, uploads, home, ws, ledger>>

\* getColorName(hex)
CallGetColorName(hex) ==
    /\ pc = "idle"
    /\ req' = Request("getColorName", 0, [hex |-> hex])
    /\ res' = Returned(getColorName(hex))
    /\ before' = Snapshot
    /\ pc' = "done"
    /\ calls' = <<>>
    /\ outcome' = NoOutcome
    /\ UNCHANGED <<env, uploads, home, ws, ledger>>

---------------------------------------------------------------------------
(* The client: the state of Home, and ProfessionalCanvasWorkspace *)

\* useState initial values of Home.  picks counts the color selections made;
\* flow is the upload in progress, fetches the requests that have not
\* settled and sent the image records requested so far (see Home below).
HomeInitial ==
    [projectName      |-> "Untitled Project",
     selectedColor    |-> Null,
     uploadedImage    |-> Null,
     uploadedImageId  |-> Null,
     currentProjectId |-> Null,
     resultImage      |-> Null,
     recentColors     |-> <<>>,
     picks            |-> 0,
     flow             |-> [pc |-> "none", file |-> NoFile, project |-> Null,
                           path |-> "", fullUrl |-> ""],
     fetches          |-> {},
     sent             |-> {}]

ProcessingIdle == [isSegmenting |-> FALSE, isInpainting |-> FALSE, currentStep |-> ""]
ProcessingStep(step) == [isSegmenting |-> TRUE, isInpainting |-> FALSE, currentStep |-> step]

ZoomMin     == 50       \* Slider min, Math.max(prev - 10, 50)
ZoomMax     == 200      \* Slider max, Math.min(prev + 10, 200)
ZoomStep    == 10       \* Slider step, prev + 10, prev - 10
ZoomInitial == 100      \* useState(100), setZoom(100)

MaxInFlight == 2        \* recolor requests pending at once

\* The workspace as mounted with an imageUrl prop: the useState initial
\* values, and the effect on imageUrl has started loading the image.
\* rendered is the processing state as of the last render, which is what the
\* handlers of that render see; inflight, resultFor and last are history:
\* the pending requests, the image the shown result was requested for, and
\* the last handler that ran.
WsMounted(imageUrl) ==
    [imageUrl    |-> imageUrl,
     zoom        |-> ZoomInitial,
     processing  |-> ProcessingIdle,
     rendered    |-> ProcessingIdle,
     imageLoaded |-> FALSE,
     loading     |-> IF imageUrl # "" THEN {imageUrl} ELSE {},
     currentMask |-> Null,
     resultImage |-> Null,
     resultFor   |-> "",
     inflight    |-> <<>>,
     last        |-> "mount"]

\* Home shows the upload zone instead of the workspace.
WsUnmounted == [WsMounted("") EXCEPT !.last = "none"]

ClientUnused == home = HomeInitial /\ ws = WsUnmounted

\* What Home passes to the workspace as imageUrl: the workspace is mounted
\* with the first image and runs its effect on imageUrl for each other one.
WsShowing(imageUrl) ==
    IF ws.last = "none" THEN WsMounted(imageUrl)
    ELSE IF imageUrl = ws.imageUrl THEN ws
    ELSE [ws EXCEPT !.imageUrl = imageUrl,
                    !.loading = IF imageUrl # "" THEN @ \cup {imageUrl} ELSE @,
                    !.rendered = ws.processing,
                    !.last = "props"]

\* The parent renders the workspace with another imageUrl: the effect on
\* imageUrl starts loading it.
SetImageUrl(imageUrl) ==
    /\ ws.last # "none"
    /\ imageUrl # ws.imageUrl
    /\ ws' = WsShowing(imageUrl)
    /\ home' = [home EXCEPT !.uploadedImage = Str(imageUrl)]
    /\ UNCHANGED <<env, uploads, http, ledger>>

\* img.onload of the effect
ImageOnload(imageUrl) ==
    /\ imageUrl \in ws.loading
    /\ ws' = [ws EXCEPT !.loading = @ \ {imageUrl},
                        !.imageLoaded = TRUE,
                        !.resultImage = Null,
                        !.resultFor = "",
                        !.last = "onload"]
    /\ UNCHANGED <<env, uploads, home, http, ledger>>

\* img.onerror of the effect: a toast
ImageOnerror(imageUrl) ==
    /\ imageUrl \in ws.loading
    /\ ws' = [ws EXCEPT !.loading = @ \ {imageUrl}, !.last = "onerror"]
    /\ UNCHANGED <<env, uploads, home, http, ledger>>

RecolorFetch(imageUrl, autoSegment) == [imageUrl |-> imageUrl, autoSegment |-> autoSegment]

\* if (!imageUrl || processing.isSegmenting || processing.isInpainting) return
Busy == ws.imageUrl = "" \/ ws.rendered.isSegmenting \/ ws.rendered.isInpainting

\* A faulty variant of handleCanvasClick: no check of the processing state.
handleCanvasClick_Unguarded ==
    /\ ws.last # "none"
    /\ ws.imageLoaded
    /\ ws.imageUrl # ""
    /\ Len(ws.inflight) < MaxInFlight
    /\ ws' = [ws EXCEPT !.processing = ProcessingStep("Analyzing furniture part..."),
                        !.rendered = ProcessingStep("Analyzing furniture part..."),
                        !.inflight = Append(@, RecolorFetch(ws.imageUrl, FALSE)),
                        !.last = "click"]
    /\ UNCHANGED <<env, uploads, home, http, ledger>>

\* handleCanvasClick up to its await.  The clickable area has the size set
\* by img.onload, so it takes clicks once an image has loaded.  The state set
\* in a click handler is rendered before the next event is handled.
handleCanvasClick ==
    /\ ws.last # "none"
    /\ ws.imageLoaded
    /\ ~Busy
    /\ Len(ws.inflight) < MaxInFlight
    /\ ws' = [ws EXCEPT !.processing = ProcessingStep("Analyzing furniture part..."),
                        !.rendered = ProcessingStep("Analyzing furniture part..."),
                        !.inflight = Append(@, RecolorFetch(ws.imageUrl, FALSE)),
                        !.last = "click"]
    /\ UNCHANGED <<env, uploads, home, http, ledger>>

\* handleAutoSegment up to its await; the button is disabled until the
\* image has loaded and while processing.
handleAutoSegment ==
    /\ ws.last # "none"
    /\ ws.imageLoaded
    /\ ~Busy
    /\ Len(ws.inflight) < MaxInFlight
    /\ ws' = [ws EXCEPT !.processing = ProcessingStep("Auto-detecting furniture parts..."),
                        !.rendered = ProcessingStep("Auto-detecting furniture parts..."),
                        !.inflight = Append(@, RecolorFetch(ws.imageUrl, TRUE)),
                        !.last = "auto"]
    /\ UNCHANGED <<env, uploads, home, http, ledger>>

\* How a pending /api/professional-recolor fetch ends.
FetchOutcomes == {"ok", "non2xx", "noResultUrl", "throws"}
ResultUrl == "https://replicate.delivery/out.png"

Without(seq, i) == SubSeq(seq, 1, i - 1) \o SubSeq(seq, i + 1, Len(seq))

\* handleResultGenerated
handleResultGenerated(resultUrl) == [home EXCEPT !.resultImage = Str(resultUrl)]

\* A faulty variant of RecolorSettles: the processing state is reset on the
\* success path only.
RecolorSettles_NoFinally(i, fetchOutcome) ==
    /\ i \in 1..Len(ws.inflight)
    /\ IF fetchOutcome = "ok"
       THEN /\ ws' = [ws EXCEPT !.currentMask = Str(ws.inflight[i].imageUrl),
                               !.resultImage = Str(ResultUrl),
                               !.resultFor = ws.inflight[i].imageUrl,
                               !.processing = ProcessingIdle,
                               !.inflight = Without(@, i),
                               !.last = "ok"]
            /\ home' = handleResultGenerated(ResultUrl)
       ELSE /\ ws' = [ws EXCEPT !.inflight = Without(@, i),
                               !.last = fetchOutcome]
            /\ UNCHANGED home
    /\ UNCHANGED <<env, uploads, http, ledger>>

\* The rest of handleCanvasClick / handleAutoSegment once the fetch settled:
\* the try block after the await, the catch block (a toast) and the finally
\* block.  The server's maskUrl is the request's imageUrl.  The state set
\* here is rendered later (Render).
RecolorSettles(i, fetchOutcome) ==
    /\ i \in 1..Len(ws.inflight)
    /\ IF fetchOutcome = "ok"
       THEN /\ ws' = [ws EXCEPT !.currentMask = Str(ws.inflight[i].imageUrl),
                               !.resultImage = Str(ResultUrl),
                               !.resultFor = ws.inflight[i].imageUrl,
                               !.processing = ProcessingIdle,
                               !.inflight = Without(@, i),
                               !.last = "ok"]
            /\ home' = handleResultGenerated(ResultUrl)
       ELSE /\ ws' = [ws EXCEPT !.processing = ProcessingIdle,
                               !.inflight = Without(@, i),
                               !.last = fetchOutcome]
            /\ UNCHANGED home
    /\ UNCHANGED <<env, uploads, http, ledger>>

\* The re-render after state was set outside an event handler.
Render ==
    /\ ws.rendered # ws.processing
    /\ ws' = [ws EXCEPT !.rendered = ws.processing]
    /\ UNCHANGED <<env, uploads, home, http, ledger>>

\* A faulty variant of handleZoomIn: no upper limit.
handleZoomIn_Unclamped ==
    /\ ws.last # "none"
    /\ ws.zoom < ZoomMax + ZoomStep
    /\ ws' = [ws EXCEPT !.zoom = @ + ZoomStep, !.last = "zoomIn"]
    /\ UNCHANGED <<env, uploads, home, http, ledger>>

\* setZoom(prev => Math.min(prev + 10, 200))
handleZoomIn ==
    /\ ws.last # "none"
    /\ ws' = [ws EXCEPT !.zoom = IF @ + ZoomStep < ZoomMax THEN @ + ZoomStep ELSE ZoomMax,
                        !.last = "zoomIn"]
    /\ UNCHANGED <<env, uploads, home, http, ledger>>

\* setZoom(prev => Math.max(prev - 10, 50))
handleZoomOut ==
    /\ ws.last # "none"
    /\ ws' = [ws EXCEPT !.zoom = IF @ - ZoomStep > ZoomMin THEN @ - ZoomStep ELSE ZoomMin,
                        !.last = "zoomOut"]
    /\ UNCHANGED <<env, uploads, home, http, ledger>>

\* The values the Slider offers: min, min + step, ... up to max.
SliderValues == { v \in ZoomMin..ZoomMax : (v - ZoomMin) % ZoomStep = 0 }

\* Slider onValueChange
onValueChange(value) ==
    /\ ws.last # "none"
    /\ ws' = [ws EXCEPT !.zoom = value, !.last = "slider"]
    /\ UNCHANGED <<env, uploads, home, http, ledger>>

\* handleReset
handleReset ==
    /\ ws.last # "none"
    /\ ws' = [ws EXCEPT !.zoom = ZoomInitial,
                        !.currentMask = Null,
                        !.resultImage = Null,
                        !.resultFor = "",
                        !.last = "reset"]
    /\ UNCHANGED <<env, uploads, home, http, ledger>>

---------------------------------------------------------------------------
(* The client: Home *)

RecentLimit == 8        \* .slice(0, 8)
MaxSelections == 3      \* color selections explored from an initial list

\* Array.prototype.slice(0, end)
Slice(array, end) == SubSeq(array, 1, IF Len(array) < end THEN Len(array) ELSE end)

\* A faulty variant of handleColorSelect: the selected color is not removed
\* from the previous list.
handleColorSelect_NoFilter(color) ==
    /\ home.picks < MaxSelections
    /\ home' = [home EXCEPT !.selectedColor = Str(color),
                            !.recentColors = Slice(<<color>> \o @, RecentLimit),
                            !.picks = @ + 1]
    /\ UNCHANGED <<env, uploads, ws, http, ledger>>

\* handleColorSelect; a ColorItem is modelled by its id.
handleColorSelect(color) ==
    /\ home.picks < MaxSelections
    /\ home' = [home EXCEPT !.selectedColor = Str(color),
                            !.recentColors =
                                Slice(<<color>> \o SelectSeq(@, LAMBDA c : c # color),
                                      RecentLimit),
                            !.picks = @ + 1]
    /\ UNCHANGED <<env, uploads, ws, http, ledger>>

\* file.name.replace(/\.[^/.]+$/, ""): drops a last ".ext" of one or more
\* characters other than "/" and ".".
StripExtension(name) ==
    LET dot == LastIndexOf(name, ".")
    IN  IF dot = 0 \/ dot = Len(name) \/ LastIndexOf(name, "/") > dot
        THEN name
        ELSE SubSeq(name, 1, dot - 1)

\* A fetch of Home that has not settled; who names the code that awaits it.
Fetch(who, route, id, body) == [who |-> who, route |-> route, id |-> id, body |-> body]

\* The server has answered the fetch.
Served(f) == pc = "done" /\ req = Request(f.route, f.id, f.body)

\* The response has been read: the server keeps nothing of the request.
Received ==
    /\ pc' = "idle"
    /\ req' = NoRequest
    /\ calls' = <<>>
    /\ outcome' = NoOutcome
    /\ res' = NoResponse
    /\ before' = NoSnapshot

\* The fetch ends for the code awaiting it: either the server's answer is
\* read, or the fetch rejects without one.
Settles(f, ok) ==
    /\ f \in home.fetches
    /\ \/ Served(f) /\ ok = (res.status = 200) /\ Received
       \/ ~Served(f) /\ ~ok /\ UNCHANGED http

\* The upload that handleImageUpload is carrying out: its position, the file,
\* the currentProjectId of the render that started it (then projectToUse),
\* and the data of the upload response.
NoFlow == [pc |-> "none", file |-> NoFile, project |-> Null, path |-> "", fullUrl |-> ""]
FlowActive == home.flow.pc \in {"uploading", "creating", "probing", "recording"}

\* handleImageUpload up to its first await.  The upload zone is rendered
\* while no image is held; one file is dropped at a time.
handleImageUpload(file) ==
    /\ home.uploadedImage = Null
    /\ ~FlowActive
    /\ home' = [home EXCEPT
                  !.flow = [NoFlow EXCEPT !.pc = "uploading", !.file = file,
                                          !.project = home.currentProjectId],
                  !.fetches = @ \cup {Fetch("upload", "POST /api/upload", 0,
                                            [file |-> file])}]
    /\ UNCHANGED <<env, uploads, ws, http, ledger>>

ProjectData(name, previewImageUrl) ==
    IF previewImageUrl = Null THEN [name |-> name]
    ELSE [name |-> name, previewImageUrl |-> previewImageUrl.v]

\* handleImageUpload from the upload response to the next await: the project
\* creation, or the image probe when the render that started the upload had a
\* project.
UploadSettles(f, ok) ==
    /\ f.who = "upload"
    /\ Settles(f, ok)
    /\ IF ~ok
       THEN /\ home' = [home EXCEPT !.flow.pc = "failed", !.fetches = @ \ {f}]
            /\ UNCHANGED ws
       ELSE LET data == res.body
                name == StripExtension(f.body.file.originalname)
            IN  /\ home' = [home EXCEPT
                       !.uploadedImage = Str(data.fullUrl),
                       !.projectName = name,
                       !.flow.path = data.path,
                       !.flow.fullUrl = data.fullUrl,
                       !.flow.pc = IF home.flow.project # Null THEN "probing"
                                   ELSE "creating",
                       !.fetches = (@ \ {f}) \cup
                           IF home.flow.project # Null THEN {}
                           ELSE {Fetch("create", "POST /api/projects", 0,
                                       ProjectData(name, Str(data.path)))}]
                /\ ws' = WsShowing(data.fullUrl)
    /\ UNCHANGED <<env, uploads, ledger>>

\* handleImageUpload from the created project to img.src = data.fullUrl; a
\* failed creation ends in the catch block.
CreateSettles(f, ok) ==
    /\ f.who = "create"
    /\ Settles(f, ok)
    /\ home' = IF ok
               THEN [home EXCEPT !.currentProjectId = Num(res.body.project.id),
                                 !.flow.project = Num(res.body.project.id),
                                 !.flow.pc = "probing",
                                 !.fetches = @ \ {f}]
               ELSE [home EXCEPT !.flow.pc = "failed", !.fetches = @ \ {f}]
    /\ UNCHANGED <<env, uploads, ws, ledger>>

NaturalWidth  == 640
NaturalHeight == 480

\* img.onload of the probe, up to its await
ProbeOnload ==
    /\ home.flow.pc = "probing"
    /\ LET f == Fetch("record", "POST /api/projects/:projectId/images",
                      home.flow.project.v,
                      [projectId         |-> home.flow.project.v,
                       originalImagePath |-> home.flow.path,
                       mimeType          |-> home.flow.file.mimetype,
                       width             |-> NaturalWidth,
                       height            |-> NaturalHeight])
       IN  home' = [home EXCEPT !.flow.pc = "recording",
                                !.fetches = @ \cup {f},
                                !.sent = @ \cup {f}]
    /\ UNCHANGED <<env, uploads, ws, http, ledger>>

\* A faulty variant of ProbeOnerror: the image record is sent all the same.
ProbeOnerror_Records ==
    /\ home.flow.pc = "probing"
    /\ LET f == Fetch("record", "POST /api/projects/:projectId/images",
                      home.flow.project.v,
                      [projectId         |-> home.flow.project.v,
                       originalImagePath |-> home.flow.path,
                       mimeType          |-> home.flow.file.mimetype,
                       width             |-> 0,
                       height            |-> 0])
       IN  home' = [home EXCEPT !.flow.pc = "probeFailed",
                                !.fetches = @ \cup {f},
                                !.sent = @ \cup {f}]
    /\ UNCHANGED <<env, uploads, ws, http, ledger>>

\* img.onerror of the probe: a log line and a toast
ProbeOnerror ==
    /\ home.flow.pc = "probing"
    /\ home' = [home EXCEPT !.flow.pc = "probeFailed"]
    /\ UNCHANGED <<env, uploads, ws, http, ledger>>

\* img.onload of the probe after its await
RecordSettles(f, ok) ==
    /\ f.who = "record"
    /\ Settles(f, ok)
    /\ home' = IF ok
               THEN [home EXCEPT !.uploadedImageId = Num(res.body.image.id),
                                 !.flow.pc = "recorded",
                                 !.fetches = @ \ {f}]
               ELSE [home EXCEPT !.flow.pc = "notRecorded", !.fetches = @ \ {f}]
    /\ UNCHANGED <<env, uploads, ws, ledger>>

\* The bundled pictures, as the example buttons and the gallery list them.
sofaImage  == "/assets/sofa.png"
chairImage == "/assets/chair.png"
Examples == { [img |-> sofaImage, name |-> "Modern Sofa"],
              [img |-> chairImage, name |-> "Dining Chair"] }
BuiltinProjects == { [id |-> "1", name |-> "Modern Grey Sofa", thumbnail |-> sofaImage],
                     [id |-> "2", name |-> "Beige Dining Chair", thumbnail |-> chairImage] }

\* onClick of an example button; the buttons are rendered with the upload
\* zone.
SelectExample(example) ==
    /\ home.uploadedImage = Null
    /\ home' = [home EXCEPT !.uploadedImage = Str(example.img),
                            !.projectName = example.name,
                            !.uploadedImageId = Null,
                            !.currentProjectId = Null,
                            !.resultImage = Null]
    /\ ws' = WsShowing(example.img)
    /\ UNCHANGED <<env, uploads, http, ledger>>

\* onProjectSelect of the gallery for one of the built-in projects
SelectBuiltin(project) ==
    /\ home' = [home EXCEPT !.uploadedImage = Str(project.thumbnail),
                            !.projectName = project.name,
                            !.currentProjectId = Null]
    /\ ws' = WsShowing(project.thumbnail)
    /\ UNCHANGED <<env, uploads, http, ledger>>

\* onProjectSelect of the gallery for a stored project: loadProject up to its
\* await.  The gallery lists the projects of the last GET /api/projects.
loadProject(projectId) ==
    /\ projectId \in Ids(projects)
    /\ home' = [home EXCEPT !.fetches = @ \cup
                   {Fetch("load", "GET /api/projects/:id", projectId, NoBody)}]
    /\ UNCHANGED <<env, uploads, ws, http, ledger>>

\* loadProject after its await
LoadSettles(f, ok) ==
    /\ f.who = "load"
    /\ Settles(f, ok)
    /\ IF ok
       THEN LET project == res.body.project
            IN  /\ home' = [home EXCEPT
                       !.projectName = project.name,
                       !.currentProjectId = Num(project.id),
                       !.uploadedImage = IF project.previewImageUrl # ""
                                         THEN Str(project.previewImageUrl) ELSE @,
                       !.fetches = @ \ {f}]
                /\ ws' = IF project.previewImageUrl # ""
                         THEN WsShowing(project.previewImageUrl) ELSE ws
       ELSE /\ home' = [home EXCEPT !.fetches = @ \ {f}]
            /\ UNCHANGED ws
    /\ UNCHANGED <<env, uploads, ledger>>

\* The server takes up one of the pending fetches.
ServeFetch ==
    \E f \in home.fetches :
       \/ f.who = "upload" /\ Upload(f.body.file)
       \/ f.who = "create" /\ CreateProject(f.body)
       \/ f.who = "record" /\ AddProjectImage(f.id, f.body)
       \/ f.who = "load" /\ GetProject(f.id)

---------------------------------------------------------------------------
(* The requests, provider behaviours and deployments explored *)

\* The fields of `full` named in `keys`: a body that leaves the others out.
Pick(full, keys) == [k \in keys |-> full[k]]

DevDomains     == {"", "app.replit.dev"}
ImageUrls      == {"", "/uploads/a.png", "/@fs/home/workspace/att/a.png",
                   "http://localhost:5000/uploads/a.png",
                   "http://127.0.0.1:5000/a.png", "http://x/a.png"}
Colors         == {"", "#FF0000", "#ff0000", "#123456"}
Materials      == {"leather", "silk"}
FurnitureParts == {"seat", "sofa"}
Seeds          == {0, 999999}      \* Math.floor(Math.random() * 1000000)

RecolorBodies ==
    { Pick(full, keys) :
        keys \in SUBSET {"imageUrl", "color", "material", "furniturePart"},
        full \in [imageUrl : ImageUrls, color : Colors,
                  material : Materials, furniturePart : FurnitureParts] }

InpaintBodies ==
    { Pick(full, keys) :
        keys \in SUBSET {"imageUrl", "maskUrl", "color", "material",
                         "furniturePart", "promptStrength", "maskBlur"},
        full \in [imageUrl : {"", "http://x/a.png"}, maskUrl : {"", "http://x/m.png"},
                  color : Colors, material : Materials,
                  furniturePart : FurnitureParts,
                  promptStrength : {"0.4"}, maskBlur : {"1"}] }

\* Manual-click requests send clickX and clickY, auto-detect requests send
\* autoSegment; any field may be left out.
SegmentBodies ==
    { Pick(full, keys) :
        keys \in SUBSET {"imageUrl", "clickX", "clickY", "autoSegment", "furniturePart"},
        full \in [imageUrl : {"", "/uploads/a.png"}, clickX : {0, 120}, clickY : {40},
                  autoSegment : BOOLEAN, furniturePart : {"", "seat"}] }

UrlB == Str("http://result/b.png")
UrlC == Str("https://result/c.png")
Rel  == Str("/result/b.png")

ProviderOutputs ==
    { UrlB, Rel, Str(""), Str("htt"),
      List(<<>>), List(<<UrlB>>), List(<<UrlB, UrlC>>), List(<<Rel>>),
      List(<<Str(""), UrlB>>), List(<<Num(1)>>), List(<<Null>>),
      Obj(<<>>), Obj(<<Field("foo", Num(1))>>),
      Obj(<<Field("output", UrlB)>>), Obj(<<Field("url", UrlB)>>),
      Obj(<<Field("url", UrlC), Field("output", UrlB)>>),
      Obj(<<Field("output", Rel), Field("url", UrlB)>>),
      Obj(<<Field("output", Num(1)), Field("url", UrlC)>>),
      Obj(<<Field("output", List(<<UrlB>>))>>),
      Obj(<<Field("id", Str("p1")), Field("image", UrlC), Field("thumb", UrlB)>>),
      Obj(<<Field("image", UrlC), Field("0", UrlB)>>),
      Obj(<<Field("url", Null), Field("path", Rel)>>),
      Null, Undefined, Num(42), Num(0) }

ProviderErrors ==
    { ThrownError("Request to https://api.replicate.com/v1/predictions failed with status 402"),
      ThrownValue(Str("timeout")) }

EmptyLedger == <<{}, {}, {}, {}, {}, {}, {}, 1>>
SeededLedger ==
    <<{ProjectRow(1, "sofa")}, {ImageRow(2, 1, "/uploads/a.png")}, {MaskRow(3, 2)},
      {ColorRow(4, 1, 3, "#FF0000")}, {ResultRow(5, 1, 3)}, {},
      {CanvasRow(6, 1, 1)}, 7>>

Zooms == {1, 2}       \* canvas_states.zoom (default 1)
ProjectBodies == { [name |-> "sofa"], [description |-> "no name"] }
RenameBodies  == { [name |-> "chair"], [description |-> "no name"] }
ImageBodies   == { [originalImagePath |-> "/uploads/a.png"], [mimeType |-> "image/png"] }
\* The ids a request names: those of the rows the table has, and one that no
\* row has (the routes compare ids for equality only).
AbsentId == MaxRows + 1
ProjectTargets == Ids(projects) \cup {AbsentId}
MaskTargets    == Ids(segmentationMasks) \cup {AbsentId}
UpdateRequests == ProjectTargets \X RenameBodies
ImageRequests  == ProjectTargets \X ImageBodies
ColorBodies   ==
    { [projectId |-> p, maskId |-> m, fillHex |-> "#FF0000"] :
        p \in ProjectTargets, m \in MaskTargets }
      \cup { [fillHex |-> "#FF0000"] }

---------------------------------------------------------------------------
(* Specifications *)

\* The response is out and the handler's locals are gone: the server keeps
\* nothing of a request.
Finish ==
    /\ pc = "done"
    /\ pc' = "idle"
    /\ req' = NoRequest
    /\ calls' = <<>>
    /\ outcome' = NoOutcome
    /\ res' = NoResponse
    /\ before' = NoSnapshot
    /\ UNCHANGED <<env, uploads, home, ws, ledger>>

Idle ==
    /\ pc = "idle"
    /\ req = NoRequest
    /\ calls = <<>>
    /\ outcome = NoOutcome
    /\ res = NoResponse
    /\ before = NoSnapshot

LedgerIs(L) ==
    /\ projects = L[1]
    /\ projectImages = L[2]
    /\ segmentationMasks = L[3]
    /\ colorApplications = L[4]
    /\ professionalResults = L[5]
    /\ recentColors = L[6]
    /\ canvasStates = L[7]
    /\ nextId = L[8]

\* The server with its two inference routes, over a ledger as some earlier
\* run left it.
Init ==
    /\ env \in DevDomains
    /\ uploads = <<>>
    /\ ClientUnused
    /\ Idle
    /\ \E L \in {EmptyLedger, SeededLedger} : LedgerIs(L)

Next ==
    \/ \E body \in RecolorBodies, seed \in Seeds : RecolorRequest(body, seed)
    \/ \E output \in ProviderOutputs : RecolorReturn(output)
    \/ \E thrown \in ProviderErrors : RecolorCatch(thrown)
    \/ \E body \in InpaintBodies, seed \in Seeds : InpaintRequest(body, seed)
    \/ \E output \in ProviderOutputs : InpaintReturn(output)
    \/ \E thrown \in ProviderErrors : InpaintCatch(thrown)
    \/ \E body \in SegmentBodies : SegmentProfessional(body)
    \/ Finish

Spec == Init /\ [][Next]_vars

\* The ledger routes and the SQL inserts, from an empty database.
LedgerInit ==
    /\ env = ""
    /\ uploads = <<>>
    /\ ClientUnused
    /\ Idle
    /\ LedgerIs(EmptyLedger)

LedgerNext ==
    \/ \E body \in ProjectBodies : CreateProject(body)
    \/ \E r \in UpdateRequests : UpdateProject(r[1], r[2])
    \/ \E id \in ProjectTargets : DeleteProject(id)
    \/ \E id \in ProjectTargets : GetProject(id)
    \/ \E r \in ImageRequests : AddProjectImage(r[1], r[2])
    \/ \E body \in ColorBodies : RecordColor(body)
    \/ \E imageId \in RowIds : InsertMask(imageId)
    \/ \E projectId \in RowIds, maskId \in RowIds : InsertResult(projectId, maskId)
    \/ \E projectId \in RowIds : InsertCanvasState(projectId, 1)
    \/ \E projectId \in ProjectTargets, zoom \in Zooms :
          UpsertCanvasState(projectId, zoom)
    \/ Finish

LedgerSpec == LedgerInit /\ [][LedgerNext]_vars

\* The upload route over a ledger an earlier run left.
UploadNames == {"a.PNG", "noext"}
UploadTypes == {"image/jpeg", "image/jpg", "image/png", "image/gif", "image/webp",
                "image/svg+xml", "application/pdf"}
UploadSizes == {1, fileSizeLimit, fileSizeLimit + 1}
UploadFiles ==
    [originalname : UploadNames, mimetype : UploadTypes, size : UploadSizes,
     buffer : {"bytesA", "bytesB"}] \cup {NoFile}

UploadInit ==
    /\ env \in DevDomains
    /\ uploads = <<>>
    /\ ClientUnused
    /\ Idle
    /\ LedgerIs(SeededLedger)

UploadNext ==
    \/ \E file \in UploadFiles : Upload(file)
    \/ Finish

UploadSpec == UploadInit /\ [][UploadNext]_vars

\* The two helpers called with any arguments, in any order.
PromptParts ==
    { e[1] : e \in FURNITURE_PARTS } \cup {"sofa", "", "constructor"}
PromptMaterials ==
    { e[1] : e \in MATERIAL_TYPES } \cup {"silk", "", "constructor", "__proto__"}
PromptColors == {"red", "color #123456"}
Hexes ==
    { e[1] : e \in colorMap }
      \cup {"#ff0000", "#a52a2a", "#123456", "#abcdef", "#F00", "", "red", "constructor"}

PromptInit ==
    /\ env = ""
    /\ uploads = <<>>
    /\ ClientUnused
    /\ Idle
    /\ LedgerIs(EmptyLedger)

PromptNext ==
    \/ \E furniturePart \in PromptParts, material \in PromptMaterials,
          color \in PromptColors :
            CallGenerateInpaintingPrompt(furniturePart, material, color)
    \/ \E hex \in Hexes : CallGetColorName(hex)
    \/ Finish

PromptSpec == PromptInit /\ [][PromptNext]_vars

\* The workspace under its user, its parent and the network.
WsImages == {"http://h/a.png", "http://h/b.png"}

WorkspaceInit ==
    /\ env = ""
    /\ uploads = <<>>
    /\ \E imageUrl \in WsImages :
         /\ ws = WsMounted(imageUrl)
         /\ home = [HomeInitial EXCEPT !.uploadedImage = Str(imageUrl)]
    /\ Idle
    /\ LedgerIs(EmptyLedger)

WorkspaceNext ==
    \/ \E imageUrl \in WsImages : SetImageUrl(imageUrl)
    \/ \E imageUrl \in WsImages : ImageOnload(imageUrl)
    \/ \E imageUrl \in WsImages : ImageOnerror(imageUrl)
    \/ handleCanvasClick
    \/ handleAutoSegment
    \/ \E i \in 1..MaxInFlight, fetchOutcome \in FetchOutcomes :
          RecolorSettles(i, fetchOutcome)
    \/ Render
    \/ handleZoomIn
    \/ handleZoomOut
    \/ \E value \in SliderValues : onValueChange(value)
    \/ handleReset

WorkspaceSpec == WorkspaceInit /\ [][WorkspaceNext]_vars

\* Every pending fetch settles: the network answers or fails.
WorkspaceFairSpec ==
    /\ WorkspaceSpec
    /\ WF_vars(\E i \in 1..MaxInFlight, fetchOutcome \in FetchOutcomes :
                  RecolorSettles(i, fetchOutcome))

\* Home under color selections.  The palette has more colors than the recent
\* list holds; the initial lists are the empty one and those left by
\* selecting the first seven or eight colors in turn.
ColorIds == {"c1", "c2", "c3", "c4", "c5", "c6", "c7", "c8", "c9"}
RecentLists ==
    { <<>>,
      <<"c7", "c6", "c5", "c4", "c3", "c2", "c1">>,
      <<"c8", "c7", "c6", "c5", "c4", "c3", "c2", "c1">> }

ColorInit ==
    /\ env = ""
    /\ uploads = <<>>
    /\ ws = WsUnmounted
    /\ \E recent \in RecentLists :
         home = [HomeInitial EXCEPT
                   !.recentColors = recent,
                   !.selectedColor = IF recent = <<>> THEN Null ELSE Str(recent[1])]
    /\ Idle
    /\ LedgerIs(EmptyLedger)

ColorNext == \E color \in ColorIds : handleColorSelect(color)

ColorSpec == ColorInit /\ [][ColorNext]_vars

\* Home under its user, the browser and the server: uploading, the example
\* buttons and selecting in the gallery.
HomeFiles ==
    { [originalname |-> "sofa.png", mimetype |-> "image/png", size |-> 1, buffer |-> "b1"],
      [originalname |-> "notes.txt", mimetype |-> "text/plain", size |-> 1, buffer |-> "b2"] }

HomeInit ==
    /\ env = ""
    /\ uploads = <<>>
    /\ ClientUnused
    /\ Idle
    /\ LedgerIs(EmptyLedger)

HomeNext ==
    \/ \E file \in HomeFiles : handleImageUpload(file)
    \/ ServeFetch
    \/ \E f \in home.fetches, ok \in BOOLEAN :
          \/ UploadSettles(f, ok)
          \/ CreateSettles(f, ok)
          \/ RecordSettles(f, ok)
          \/ LoadSettles(f, ok)
    \/ ProbeOnload
    \/ ProbeOnerror
    \/ \E example \in Examples : SelectExample(example)
    \/ \E project \in BuiltinProjects : SelectBuiltin(project)
    \/ \E projectId \in RowIds : loadProject(projectId)

HomeSpec == HomeInit /\ [][HomeNext]_vars

---------------------------------------------------------------------------
(* Properties of POST /api/professional-recolor and the inference calls *)

Recolor == req.route = "POST /api/professional-recolor"
Inpaint == req.route = "POST /api/inpaint-professional"

\* The recolor handler has answered a request whose replicate.run resolved.
RecolorAnswered == Recolor /\ pc = "done" /\ outcome.kind = "returned"

FailureBody == DOMAIN res.body = {"message", "error"}

\* The extraction order as the specification words it: string, head of a
\* non-empty list, object.output, object.url, first http-prefixed field.
NoMatch == [matched |-> FALSE, value |-> Undefined]
Match(v) == [matched |-> TRUE, value |-> v]
PrecedenceChoice(output) ==
    IF output.t = "string" THEN Match(output)
    ELSE IF output.t = "array" /\ output.v # <<>> THEN Match(output.v[1])
    ELSE IF output.t = "object"
    THEN LET fs      == OwnFields(output)
             named(k) == { i \in 1..Len(fs) : fs[i].k = k /\ fs[i].v.t = "string" }
             https   == { i \in 1..Len(fs) :
                            fs[i].v.t = "string" /\ StartsWith(fs[i].v.v, "http") }
         IN  IF named("output") # {} THEN Match(fs[CHOOSE i \in named("output") : TRUE].v)
             ELSE IF named("url") # {} THEN Match(fs[CHOOSE i \in named("url") : TRUE].v)
             ELSE IF https # {}
             THEN Match(fs[CHOOSE i \in https : \A j \in https : i <= j].v)
             ELSE NoMatch
    ELSE NoMatch

UsableUrl(v) == v.t = "string" /\ v.v # "" /\ StartsWith(v.v, "http")

\* C1: whatever the provider returned, the URL the recolor handler goes on
\* with is the one the fixed precedence picks (string, then list head, then
\* output, url, first http field): a 200 carries exactly it, a rejection of
\* the URL names exactly it, and the handler reports an invalid output
\* format exactly when no rule matches.
C1_ExtractionPrecedence ==
    RecolorAnswered =>
        LET choice == PrecedenceChoice(outcome.output)
        IN  /\ res.status = 200 =>
                 choice.matched /\ res.body.resultUrl = choice.value
            /\ (res.status = 500
                  /\ StartsWith(res.body.error, "Invalid result URL received: ")) =>
                 /\ choice.matched
                 /\ res.body.error =
                      "Invalid result URL received: " \o JsonStringify(choice.value)
            /\ ~choice.matched <=>
                 (res.status = 500
                    /\ StartsWith(res.body.error, "Invalid output format from model"))

\* An object holding both url and output was answered with its output field.
C1_Witness ==
    /\ RecolorAnswered
    /\ outcome.output = Obj(<<Field("url", UrlC), Field("output", UrlB)>>)
    /\ res.status = 200
    /\ res.body.resultUrl = UrlB

\* C2: a provider response that matches no extraction rule ends in a 500
\* {message, error} whose error text carries the raw payload.
C2_InvalidOutputCarriesPayload ==
    (RecolorAnswered /\ ~PrecedenceChoice(outcome.output).matched) =>
        /\ res.status = 500
        /\ FailureBody
        /\ Includes(res.body.error, JsonStringify(outcome.output))

\* C3: the recolor handler answers 200 only with a non-empty string resultUrl
\* that begins with http; any other extracted value ends in the 500
\* {message, error} of an unusable output.
C3_ResultUrlValidated ==
    RecolorAnswered =>
        /\ res.status = 200 => UsableUrl(res.body.resultUrl)
        /\ res.status # 200 => res.status = 500 /\ FailureBody
        /\ LET choice == PrecedenceChoice(outcome.output)
           IN  (choice.matched /\ ~UsableUrl(choice.value)) => res.status = 500

\* A relative path at the head of the list was refused.
C3_Witness ==
    /\ RecolorAnswered
    /\ outcome.output = List(<<Rel>>)
    /\ res.status = 500
    /\ res.body.error = "Invalid result URL received: \"/result/b.png\""

\* C4: a recolor request without imageUrl or without color (absent or
\* empty) is answered 400 with no provider call, and a provider call is made
\* only for a request that carries both.
C4_ValidationBeforeProvider ==
    (Recolor /\ pc # "idle") =>
        /\ (Falsy(req.body, "imageUrl") \/ Falsy(req.body, "color")) =>
              pc = "done" /\ res.status = 400 /\ calls = <<>>
        /\ calls # <<>> => ~Falsy(req.body, "imageUrl") /\ ~Falsy(req.body, "color")
        /\ res.status = 400 => calls = <<>>

\* A request with an image and an empty color was refused before any call.
C4_Witness ==
    /\ Recolor
    /\ pc = "done"
    /\ Has(req.body, "imageUrl") /\ req.body.imageUrl = "http://x/a.png"
    /\ Has(req.body, "color") /\ req.body.color = ""
    /\ res.status = 400
    /\ calls = <<>>

\* The inference call of the recolor request failed: the provider threw, or
\* what it returned was unusable.
RecolorInferenceFailed ==
    /\ Recolor
    /\ pc = "done"
    /\ \/ outcome.kind = "threw"
       \/ /\ outcome.kind = "returned"
          /\ LET choice == PrecedenceChoice(outcome.output)
             IN  ~choice.matched \/ ~UsableUrl(choice.value)

\* C5: when the inference call of a recolor request fails, the answer is a
\* 500 {message, error} and every table is as it was when the request came.
C5_FailureLeavesLedger ==
    RecolorInferenceFailed =>
        /\ res.status = 500
        /\ FailureBody
        /\ Snapshot = before

\* The provider threw while the ledger held rows.
C5_Witness ==
    /\ RecolorInferenceFailed
    /\ outcome.kind = "threw"
    /\ res.status = 500
    /\ before.projects # {}
    /\ before.professionalResults # {}

\* C6: a recolor request with imageUrl and color whose provider response is
\* usable is answered 200 with resultUrl, maskUrl, prompt, partLabel and
\* settings, resultUrl being the URL extracted from the response.
C6_SuccessResponse ==
    RecolorAnswered =>
        LET choice == PrecedenceChoice(outcome.output)
        IN  (choice.matched /\ UsableUrl(choice.value)) =>
                /\ res.status = 200
                /\ DOMAIN res.body =
                     {"resultUrl", "maskUrl", "prompt", "partLabel", "settings"}
                /\ res.body.resultUrl = choice.value
                /\ res.body.maskUrl = req.body.imageUrl

\* The specification's example: the list ["http://result/b.png"].
C6_Witness ==
    /\ RecolorAnswered
    /\ req.body = [imageUrl |-> "http://x/a.png", color |-> "#FF0000"]
    /\ outcome.output = List(<<UrlB, UrlC>>)
    /\ res.status = 200
    /\ res.body.resultUrl = UrlB

PointsAtLoopback(url) == Includes(url, "localhost") \/ Includes(url, "127.0.0.1")

\* C7: the image URL handed to the provider is the request's image URL,
\* rewritten onto the public base when one is configured and the URL points
\* at localhost or a loopback address, and unmodified when none is
\* configured.
C7_RewrittenUrlSent ==
    (Recolor /\ calls # <<>>) =>
        LET input == calls[1].input
        IN  /\ "image" \in DOMAIN input
            /\ (env # "" /\ PointsAtLoopback(req.body.imageUrl)) =>
                  input.image = ProcessedImageUrl(req.body.imageUrl, env)
            /\ env = "" => input.image = req.body.imageUrl

\* C8: the prompt sent to the provider and returned by the recolor handler is
\* generateInpaintingPrompt(furniturePart, material, getColorName(color)).
C8_PromptFromGenerator ==
    (Recolor /\ calls # <<>>) =>
        LET generated ==
                generateInpaintingPrompt(OrDefault(req.body, "furniturePart", "cushion"),
                                         OrDefault(req.body, "material", "fabric"),
                                         getColorName(req.body.color))
        IN  /\ calls[1].input.prompt = generated
            /\ res.status = 200 => res.body.prompt = generated

\* C9: within one recolor or inpaint request the provider is invoked at most
\* once, and a provider failure goes straight to a 500 that carries the
\* underlying error message.
C9_NoRetry ==
    (Recolor \/ Inpaint) =>
        /\ Len(calls) <= 1
        /\ outcome.kind = "threw" =>
              /\ pc = "done"
              /\ Len(calls) = 1
              /\ res.status = 500
              /\ FailureBody
              /\ res.body.error = IF outcome.thrown.isError
                                  THEN outcome.thrown.message
                                  ELSE outcome.thrown.value.v

\* The provider rejected the one call of an inpaint request with an Error.
C9_Witness ==
    /\ Inpaint
    /\ pc = "done"
    /\ outcome.kind = "threw"
    /\ outcome.thrown.isError
    /\ Len(calls) = 1
    /\ res.status = 500
    /\ res.body.error = outcome.thrown.message

---------------------------------------------------------------------------
(* Properties of the ledger *)

DeleteAnswered == req.route = "DELETE /api/projects/:id" /\ pc = "done"

\* The rows that referenced project pid when the request arrived.
ImagesOf(pid)  == { i \in before.projectImages : i.projectId = pid }
MasksOf(pid)   == { m \in before.segmentationMasks : m.imageId \in Ids(ImagesOf(pid)) }
ColorsOf(pid)  == { c \in before.colorApplications : c.projectId = pid }
ResultsOf(pid) == { r \in before.professionalResults : r.projectId = pid }
CanvasOf(pid)  == { c \in before.canvasStates : c.projectId = pid }

\* C10: once DELETE /api/projects/:id is answered, none of the project's
\* images, of the masks of those images, of its color applications, of its
\* results and of its canvas states is left, no row of those tables names
\* the project, and GET /api/projects/:id answers 404.
C10_DeleteCascades ==
    DeleteAnswered =>
        /\ projectImages \cap ImagesOf(req.id) = {}
        /\ segmentationMasks \cap MasksOf(req.id) = {}
        /\ colorApplications \cap ColorsOf(req.id) = {}
        /\ professionalResults \cap ResultsOf(req.id) = {}
        /\ canvasStates \cap CanvasOf(req.id) = {}
        /\ \A m \in segmentationMasks : m.imageId \notin Ids(ImagesOf(req.id))
        /\ \A r \in projectImages \cup colorApplications \cup professionalResults
                      \cup canvasStates : r.projectId # req.id
        /\ GetProjectResponse(req.id).status = 404

\* A project with an image, a mask on that image and a color application
\* was deleted while another project existed, which stayed.
C10_Witness ==
    /\ DeleteAnswered
    /\ req.id \in Ids(before.projects)
    /\ ImagesOf(req.id) # {}
    /\ MasksOf(req.id) # {}
    /\ ColorsOf(req.id) # {}
    /\ res.status = 200
    /\ projects # {}
    /\ projects = { p \in before.projects : p.id # req.id }

\* C11: whatever ledger operations have run, every project image, color
\* application, professional result and canvas state names a project that
\* exists now, every segmentation mask names an image that exists now, and
\* every color application and professional result names a mask that
\* exists now.
C11_ParentsLive ==
    /\ \A r \in projectImages \cup colorApplications \cup professionalResults
                  \cup canvasStates : r.projectId \in Ids(projects)
    /\ \A m \in segmentationMasks : m.imageId \in Ids(projectImages)
    /\ \A r \in colorApplications \cup professionalResults :
           r.maskId \in Ids(segmentationMasks)

\* A project that owned an image was deleted while an image of another
\* project and a mask on it stay.
C11_Witness ==
    /\ DeleteAnswered
    /\ ImagesOf(req.id) # {}
    /\ projectImages # {}
    /\ segmentationMasks # {}

UpsertAnswered == req.route = "upsert canvas_states" /\ pc = "done"

\* C12: no project ever has two canvas_states rows, and once an upsert for
\* an existing project is answered there is exactly one row for that
\* project, holding the value just written, whether or not a row was
\* there before.
C12_OneCanvasStatePerProject ==
    /\ \A c, d \in canvasStates : c.projectId = d.projectId => c = d
    /\ (UpsertAnswered /\ req.id \in Ids(before.projects)) =>
           /\ Cardinality({ c \in canvasStates : c.projectId = req.id }) = 1
           /\ \A c \in canvasStates : c.projectId = req.id => c.zoom = req.body.zoom

\* A second upsert overwrote the row of a project with another value.
C12_Witness ==
    /\ UpsertAnswered
    /\ \E c \in before.canvasStates : c.projectId = req.id /\ c.zoom # req.body.zoom
    /\ \E c \in canvasStates : c.projectId = req.id /\ c.zoom = req.body.zoom

AbsentProjectAddressed ==
    /\ pc = "done"
    /\ req.id \notin Ids(before.projects)
    /\ \/ req.route \in {"GET /api/projects/:id", "DELETE /api/projects/:id"}
       \/ req.route = "PUT /api/projects/:id" /\ ValidProjectBody(req.body)

\* C13: a GET, a PUT (with a well-formed body) or a DELETE of
\* /api/projects/:id whose id matches no row is answered 404 and leaves
\* every table as it was.
C13_AbsentProjectIsNotFound ==
    AbsentProjectAddressed => (res.status = 404 /\ Snapshot = before)

MissingParentReferenced ==
    /\ pc = "done"
    /\ \/ /\ req.route = "POST /api/projects/:projectId/images"
          /\ ValidImageBody(req.body)
          /\ req.id \notin Ids(before.projects)
       \/ /\ req.route = "POST /api/colors"
          /\ ValidColorBody(req.body)
          /\ \/ req.body.projectId \notin Ids(before.projects)
             \/ req.body.maskId \notin Ids(before.segmentationMasks)

\* C14: a well-formed POST /api/projects/:projectId/images for a project
\* that does not exist, or POST /api/colors naming a project or a mask that
\* does not exist, is answered 404 and inserts no row.
C14_MissingParentIsNotFound ==
    MissingParentReferenced => (res.status = 404 /\ Snapshot = before)

---------------------------------------------------------------------------
(* Properties of the upload store *)

UploadAnswered == req.route = "POST /api/upload" /\ pc = "done"
Uploaded == req.body.file

\* The image format a declared MIME type names (image/jpg is the common
\* alias of image/jpeg).
AllowedImageSet == {"jpeg", "png", "gif", "webp"}
FormatOf(mimetype) ==
    CASE mimetype \in {"image/jpeg", "image/jpg"} -> "jpeg"
      [] mimetype = "image/png"  -> "png"
      [] mimetype = "image/gif"  -> "gif"
      [] mimetype = "image/webp" -> "webp"
      [] OTHER -> "other"

\* C15: an upload whose declared MIME type names no format of the allowed
\* set {jpeg, png, gif, webp} is answered with a failure and the upload
\* directory is left as it was.
C15_DisallowedTypeRejected ==
    (UploadAnswered /\ Uploaded # NoFile
       /\ FormatOf(Uploaded.mimetype) \notin AllowedImageSet) =>
        /\ res.status >= 400
        /\ uploads = before.uploads

\* An SVG of acceptable size was refused while a file was already stored.
C15_Witness ==
    /\ UploadAnswered
    /\ Uploaded.mimetype = "image/svg+xml"
    /\ Uploaded.size < fileSizeLimit
    /\ before.uploads # <<>>
    /\ res.status = 500
    /\ uploads = before.uploads

\* C16: an upload of more than 10 MiB is answered with a failure and writes
\* no file; an upload of exactly 10 MiB with an allowed type is accepted.
C16_SizeCeiling ==
    (UploadAnswered /\ Uploaded # NoFile) =>
        /\ Uploaded.size > 10 * 1024 * 1024 =>
               (res.status >= 400 /\ uploads = before.uploads)
        /\ (Uploaded.size = 10 * 1024 * 1024
              /\ FormatOf(Uploaded.mimetype) \in AllowedImageSet) =>
               res.status = 200

\* C17: an upload with an allowed type and at most 10 MiB is answered 200;
\* exactly one file is new, under a name no stored file had; the files
\* stored before are unchanged; every table is as it was; and the returned
\* path is under /uploads and serves the uploaded content.
C17_UploadRoundTrip ==
    (UploadAnswered /\ Uploaded # NoFile
       /\ FormatOf(Uploaded.mimetype) \in AllowedImageSet
       /\ Uploaded.size <= 10 * 1024 * 1024) =>
        /\ res.status = 200
        /\ Cardinality(DOMAIN uploads \ DOMAIN before.uploads) = 1
        /\ \A n \in DOMAIN before.uploads :
               n \in DOMAIN uploads /\ uploads[n] = before.uploads[n]
        /\ [before EXCEPT !.uploads = uploads] = Snapshot
        /\ StartsWith(res.body.path, "/uploads/")
        /\ ServeUpload(res.body.path) = Content(Uploaded)

---------------------------------------------------------------------------
(* Properties of the prompt generator *)

PromptAnswered == req.route = "generateInpaintingPrompt" /\ pc = "done"
ColorNameAnswered == req.route = "getColorName" /\ pc = "done"

\* The phrase a key contributes: the table's for an enumerated key, the
\* generic one for any other.
Phrase(table, key, generic) ==
    IF key \in { e[1] : e \in table }
    THEN (CHOOSE e \in table : e[1] = key)[2]
    ELSE generic

\* C18: generateInpaintingPrompt returns, for every part, material and
\* color, "Photorealistic <material phrase> on <part phrase>, <color>, ..."
\* where a material outside the eight enumerated ones contributes
\* "premium material" and a part outside the nine enumerated ones
\* "furniture part".
C18_PromptFallback ==
    PromptAnswered =>
        StartsWith(res.body.value,
            "Photorealistic "
              \o Phrase(MATERIAL_TYPES, req.body.material, "premium material")
              \o " on "
              \o Phrase(FURNITURE_PARTS, req.body.furniturePart, "furniture part")
              \o ", " \o req.body.color \o ", ")

\* C19: getColorName returns the table's name when the hex, read without
\* regard to the case of its digits, is one of the table's entries, and
\* "color " followed by the hex as given otherwise.
C19_ColorNameResolution ==
    ColorNameAnswered =>
        LET hex == req.body.hex
            hit == { e \in colorMap : e[1] = ToUpperCase(hex) }
        IN  IF hit # {} THEN \E e \in hit : res.body.value = e[2]
            ELSE res.body.value = "color " \o hex

\* A hex outside the table came back as the literal, and so did one written
\* in lower case.
C19_Witness ==
    /\ ColorNameAnswered
    /\ req.body.hex = "#abcdef"
    /\ res.body.value = "color #abcdef"

---------------------------------------------------------------------------
(* Properties of POST /api/inpaint-professional *)

InpaintIncomplete ==
    Falsy(req.body, "imageUrl") \/ Falsy(req.body, "maskUrl") \/ Falsy(req.body, "color")

\* C20: an inpaint request that lacks imageUrl, maskUrl or color (or sends
\* it empty) is answered 400 and no provider call is ever made for it; a
\* request with all three, whose provider call resolved to an output (any
\* value but null or undefined), is answered 200 with exactly resultUrl,
\* prompt and settings.
C20_InpaintValidation ==
    Inpaint =>
        /\ InpaintIncomplete => (pc = "done" /\ res.status = 400 /\ calls = <<>>)
        /\ (~InpaintIncomplete /\ pc = "done" /\ outcome.kind = "returned"
              /\ outcome.output.t \notin {"null", "undefined"}) =>
               /\ res.status = 200
               /\ DOMAIN res.body = {"resultUrl", "prompt", "settings"}
               /\ Len(calls) = 1

\* A complete request was answered 200 with the URL the provider returned.
C20_Witness ==
    /\ Inpaint
    /\ pc = "done"
    /\ ~InpaintIncomplete
    /\ outcome.kind = "returned"
    /\ outcome.output = List(<<UrlB, UrlC>>)
    /\ res.status = 200
    /\ res.body.resultUrl = UrlB

\* The values a provider response holds: itself, its elements, its fields.
ProviderParts(output) ==
    {output} \cup { ObjectValues(output)[i] : i \in 1..Len(ObjectValues(output)) }

\* C21: a 200 of POST /api/inpaint-professional carries a resultUrl that is
\* a non-empty string starting with "http" and that the provider response
\* holds; the request's imageUrl is never returned in its place.
C21_InpaintResultValidated ==
    (Inpaint /\ pc = "done" /\ res.status = 200) =>
        /\ UsableUrl(res.body.resultUrl)
        /\ res.body.resultUrl \in ProviderParts(outcome.output)

---------------------------------------------------------------------------
(* Properties of POST /api/segment-professional *)

Segment == req.route = "POST /api/segment-professional"

---------------------------------------------------------------------------
(* Properties of the append-only tables *)

AllIds(L) ==
    Ids(L.projects) \cup Ids(L.projectImages) \cup Ids(L.segmentationMasks)
      \cup Ids(L.colorApplications) \cup Ids(L.professionalResults)
      \cup Ids(L.canvasStates)

\* One row was added to the table and the rows it had are all there.
AppendedOne(old, new) ==
    /\ old \subseteq new
    /\ Cardinality(new \ old) = 1
    /\ \A row \in new \ old : row.id \notin AllIds(before)

\* Each row the table had is still there as it was, or is gone.
NoneUpdated(old, new) == \A row \in old : row \in new \/ row.id \notin Ids(new)

\* C24: recording a ColorApplication or attaching a ProjectImage is an
\* immutable append: a valid request (the body passes the schema and the rows
\* it refers to exist) adds exactly one new row and leaves every existing row
\* of every table unchanged, a request failing schema validation answers 400
\* and adds nothing, and no HTTP operation updates an existing
\* SegmentationMask, ColorApplication or ProfessionalResult row.
C24_ImmutableAppend ==
    pc = "done" /\ before # NoSnapshot =>
      /\ req.route = "POST /api/colors" =>
           IF ~ValidColorBody(req.body)
           THEN res.status = 400 /\ Snapshot = before
           ELSE IF /\ req.body.projectId \in Ids(before.projects)
                   /\ req.body.maskId \in Ids(before.segmentationMasks)
           THEN /\ res.status = 200
                /\ AppendedOne(before.colorApplications, colorApplications)
                /\ [Snapshot EXCEPT !.colorApplications = before.colorApplications]
                     = before
           ELSE Snapshot = before
      /\ req.route = "POST /api/projects/:projectId/images" =>
           IF ~ValidImageBody(req.body)
           THEN res.status = 400 /\ Snapshot = before
           ELSE IF req.id \in Ids(before.projects)
           THEN /\ res.status = 200
                /\ AppendedOne(before.projectImages, projectImages)
                /\ [Snapshot EXCEPT !.projectImages = before.projectImages] = before
           ELSE Snapshot = before
      /\ NoneUpdated(before.segmentationMasks, segmentationMasks)
      /\ NoneUpdated(before.colorApplications, colorApplications)
      /\ NoneUpdated(before.professionalResults, professionalResults)

\* A second color was recorded for a project and mask that had one already.
C24_Witness ==
    /\ pc = "done"
    /\ req.route = "POST /api/colors"
    /\ res.status = 200
    /\ \E row \in before.colorApplications :
          row.projectId = req.body.projectId /\ row.maskId = req.body.maskId
    /\ Cardinality(colorApplications) = 2

---------------------------------------------------------------------------
(* Properties of ProfessionalCanvasWorkspace *)

ZoomInRange == ws.zoom \in ZoomMin..ZoomMax /\ ws.zoom % 10 = 0

\* C29: after any sequence of zoom-in, zoom-out, slider and reset actions
\* zoom is a multiple of 10 within [50, 200]; zoom-in at 200 and zoom-out at
\* 50 leave it unchanged; Reset sets zoom to 100 and clears currentMask and
\* resultImage.
C29_ZoomBounded ==
    [][/\ ZoomInRange /\ ZoomInRange'
       /\ ws'.last = "zoomIn" /\ ws.zoom = 200 => ws'.zoom = 200
       /\ ws'.last = "zoomOut" /\ ws.zoom = 50 => ws'.zoom = 50
       /\ ws'.last = "reset" => /\ ws'.zoom = 100
                                /\ ws'.currentMask = Null
                                /\ ws'.resultImage = Null]_vars

\* Zoom-in was pressed at the upper limit.
C29_Witness == ws.last = "zoomIn" /\ ws.zoom = 200

\* C25: at most one /api/professional-recolor request is in flight at any
\* time, whatever the interleaving of canvas clicks, Auto-Detect presses and
\* re-renders.
C25_OneRequestInFlight == Len(ws.inflight) <= 1

\* The parent re-rendered the workspace while a request was in flight.
C25_Witness == Len(ws.inflight) = 1 /\ ws.last = "props"

\* C26: every started recolor request returns the component to the idle
\* state, whether it succeeds, the server answers non-2xx, the response lacks
\* resultUrl or the fetch throws: the settling step leaves isSegmenting and
\* isInpainting false and currentStep empty, processing always leads to idle,
\* and the settling step changes resultImage on the success path only.
C26_ReturnsToIdle ==
    /\ [][Len(ws'.inflight) < Len(ws.inflight) =>
            /\ ~ws'.processing.isSegmenting
            /\ ~ws'.processing.isInpainting
            /\ ws'.processing.currentStep = ""
            /\ ws'.last # "ok" => ws'.resultImage = ws.resultImage]_vars
    /\ (ws.processing.isSegmenting \/ ws.processing.isInpainting)
          ~> (ws.processing = ProcessingIdle)

\* A fetch threw while an earlier result was shown: the workspace is idle
\* and the earlier result is still there.
C26_Witness ==
    /\ ws.last = "throws"
    /\ ws.processing = ProcessingIdle
    /\ ws.resultImage = Str(ResultUrl)

\* C27: a non-null resultImage is the result of a recolor request that was
\* issued for the currently shown imageUrl: once the shown image has loaded
\* (which clears the result), the late response of a request issued for the
\* previous image does not become the displayed result.
C27_ResultBelongsToImage ==
    ws.resultImage # Null /\ ws.imageUrl \notin ws.loading
        => ws.resultFor = ws.imageUrl

---------------------------------------------------------------------------
(* Properties of Home *)

NoDuplicates(seq) == \A i, j \in 1..Len(seq) : seq[i] = seq[j] => i = j
IndexIn(seq, x) == CHOOSE i \in 1..Len(seq) : seq[i] = x
RecentOk == Len(home.recentColors) <= 8 /\ NoDuplicates(home.recentColors)

\* C30: after any sequence of color selections the recent-colors list holds
\* at most 8 entries and no two with the same color id, has the most
\* recently selected color first, and keeps the remaining colors in their
\* previous relative order.
C30_RecentColors ==
    [][/\ RecentOk /\ RecentOk'
       /\ home'.picks > home.picks =>
            LET old == home.recentColors
                new == home'.recentColors
            IN /\ new[1] = home'.selectedColor.v
               /\ \A i \in 2..Len(new) :
                     /\ new[i] # new[1]
                     /\ \E k \in 1..Len(old) : old[k] = new[i]
               /\ \A i, j \in 2..Len(new) :
                     i < j => IndexIn(old, new[i]) < IndexIn(old, new[j])
               /\ Len(new) = IF Len(SelectSeq(old, LAMBDA c : c # new[1])) >= 8
                             THEN 8
                             ELSE Len(SelectSeq(old, LAMBDA c : c # new[1])) + 1]_vars

\* A ninth color was selected on a full list, dropping the oldest entry, and
\* then a color from the middle of the list was selected again: it moved to
\* the front and the others kept their order.
C30_Witness ==
    /\ home.picks = 2
    /\ home.recentColors = <<"c4", "c9", "c8", "c7", "c6", "c5", "c3", "c2">>

\* The image records requested, and the rows stored, for the uploaded file.
RecordsFor(path) ==
    { f \in home.sent : f.body.originalImagePath = path } \cup
    { row \in projectImages : row.originalImagePath = path }

\* C23: when the image-dimension probe fails after a successful
\* POST /api/upload, the upload still counts as succeeded: the failing probe
\* leaves the uploaded image URL and the project as they are, no
\* ProjectImage row is created for the file, and no
\* POST /api/projects/:projectId/images request is issued for it.
C23_ProbeFailureKeepsUpload ==
    [][/\ home.flow.pc = "probing" /\ home'.flow.pc = "probeFailed" =>
            /\ home'.uploadedImage = home.uploadedImage
            /\ home'.currentProjectId = home.currentProjectId
            /\ home'.flow.path \in { "/uploads/" \o name : name \in DOMAIN uploads' }
            /\ RecordsFor(home.flow.path)' = {}
       /\ home.flow.pc = "probeFailed" =>
            /\ home'.flow.pc = "probeFailed"
            /\ RecordsFor(home.flow.path)' = {}]_vars

\* The probe failed: the uploaded image is shown, its project is the current
\* one, and the file is stored.
C23_Witness ==
    /\ home.flow.pc = "probeFailed"
    /\ home.uploadedImage = Str(home.flow.fullUrl)
    /\ home.currentProjectId = home.flow.project
    /\ home.currentProjectId # Null
    /\ home.flow.project.v \in Ids(projects)
    /\ DOMAIN uploads # {}

\* The image held shows the stored file of that path.
Holds(path) ==
    \/ home.uploadedImage = Str(path)
    \/ \E domain \in {"http://localhost:5000", "https://" \o env} :
          home.uploadedImage = Str(domain \o path)

\* C28: a non-null uploadedImageId is the id of the ProjectImage record of
\* the image held in uploadedImage, and a non-null currentProjectId is the
\* project that owns that image.
C28_IdsBelongToImage ==
    /\ home.uploadedImageId # Null =>
          \E row \in projectImages :
             /\ row.id = home.uploadedImageId.v
             /\ Holds(row.originalImagePath)
    /\ home.currentProjectId # Null /\ home.uploadedImage # Null =>
          \E p \in projects :
             /\ p.id = home.currentProjectId.v
             /\ \/ p.previewImageUrl # "" /\ Holds(p.previewImageUrl)
                \/ \E row \in projectImages :
                      row.projectId = p.id /\ Holds(row.originalImagePath)

=============================================================================
